---- MODULE Spec2Model ----
(***************************************************************************)
(* A model of the cooperative event loop of HAL-common:                    *)
(*   event::Entry / event::Data      (src/event/Entry.hpp, Data.hpp)       *)
(*   event::StaticStorage, BasicLoop (src/event/Loop.hpp)                  *)
(*   Duration arithmetic             (src/Duration.hpp)                    *)
(*                                                                         *)
(* 32-bit tick values are pairs <<hi, lo>> of 16-bit halves, so that the   *)
(* arithmetic keeps its width (TLC integers are themselves 32 bits wide).  *)
(***************************************************************************)
EXTENDS Integers, Sequences, FiniteSets, TLC

(***************************************************************************)
(* Bounds of the model.                                                    *)
(***************************************************************************)
\* Each specification below has its own storage size (the template parameter
\* entryListSize of StaticStorage), number of stored registrations and number
\* of tick increments per behaviour.
IrqListSize == 2
IrqMaxRegs == 2
IrqMaxTicks == 1
TimerListSize == 2
TimerMaxRegs == 2
TimerMaxTicks == 3
MergeListSize == 2
MergeMaxRegs == 2
MergeMaxTicks == 2
LoopListSize == 2
LoopMaxRegs == 2
LoopMaxTicks == 1
OrderListSize == 3
OrderMaxRegs == 3
OrderMaxTicks == 1
RepeatListSize == 1
RepeatMaxRegs == 2
RepeatMaxTicks == 3
ExitListSize == 2
ExitMaxRegs == 2
ExitMaxTicks == 1
SnapshotListSize == 2
SnapshotMaxRegs == 2
RingMaxSize == 3
RingMaxWrite == 4
SerialMaxSize == 3
SerialMaxBlock == 3
DeadlineMaxTicks == 3
ShellMaxLineSize == 2
ShellMaxExpansion == 3
ShellMaxTicks == 1
KindsListSize == 2
KindsMaxRegs == 2
RearmListSize == 2
RearmMaxRegs == 3
BusyListSize == 3
BusyMaxRegs == 4
LegacyTimerListSize == 2
LegacyTimerMaxRegs == 2
LegacyTimerMaxTicks == 2

(***************************************************************************)
(* Fixed-width arithmetic.                                                 *)
(***************************************************************************)
Word16 == 65536
SignBit16 == 32768

\* static_cast<uint16_t>(a + b) on 16-bit operands
Add16(a, b) == (a + b) % Word16

\* static_cast<uint16_t>(a - b) on 16-bit operands
Sub16(a, b) == (a - b + Word16) % Word16

\* the 16-bit pattern read as an unsigned number
ToUInt16(x) == x

\* static_cast<int16_t>(x) of a 16-bit pattern
ToInt16(x) == IF x >= SignBit16 THEN x - Word16 ELSE x

\* a 32-bit value from a small natural number
U32(n) == <<n \div Word16, n % Word16>>

\* Duration::operator+ : _ticks + other._ticks in uint32_t
DurationPlus(a, b) ==
    LET lo == a[2] + b[2]
    IN  <<(a[1] + b[1] + (lo \div Word16)) % Word16, lo % Word16>>

\* Duration::operator- : _ticks - other._ticks in uint32_t
DurationMinus(a, b) ==
    LET borrow == IF a[2] < b[2] THEN 1 ELSE 0
    IN  <<(a[1] - b[1] - borrow + Word16) % Word16, (a[2] - b[2] + Word16) % Word16>>

\* deltaTo with the deadline compared as unsigned numbers (no wraparound)
deltaToUnsigned(self, other) ==
    IF other = self THEN 0
    ELSE IF other[1] < self[1] \/ (other[1] = self[1] /\ other[2] < self[2]) THEN -1 ELSE 1

\* Duration::deltaTo : static_cast<int32_t>(other._ticks - _ticks), as its
\* sign (-1, 0, 1), which is all the callers look at
deltaTo(self, other) ==
    LET diff == DurationMinus(other, self)
    IN  IF diff = <<0, 0>> THEN 0
        ELSE IF diff[1] >= SignBit16 THEN -1 ELSE 1

\* static_cast<uint16_t>(ms.ticks())
Ticks16(ms) == ms[2]

\* unsigned comparison of two 32-bit values
Less32(a, b) == a[1] < b[1] \/ (a[1] = b[1] /\ a[2] < b[2])

RECURSIVE BitAnd(_, _)
\* operator& of EnumFlags on the underlying unsigned integers
BitAnd(a, b) ==
    IF a = 0 \/ b = 0 THEN 0
    ELSE (IF a % 2 = 1 /\ b % 2 = 1 THEN 1 ELSE 0) + 2 * BitAnd(a \div 2, b \div 2)

RECURSIVE BitOr(_, _)
\* operator| of EnumFlags on the underlying unsigned integers
BitOr(a, b) ==
    IF a = 0 THEN b
    ELSE IF b = 0 THEN a
    ELSE (IF a % 2 = 1 \/ b % 2 = 1 THEN 1 ELSE 0) + 2 * BitOr(a \div 2, b \div 2)

(***************************************************************************)
(* State                                                                   *)
(***************************************************************************)
VARIABLES
    tick,             \* Timer::tickMilliseconds()
    ticksLeft,        \* tick increments the behaviour may still make
    _interruptFlags,  \* BasicLoop::_interruptFlags
    _count,           \* StaticStorage::_count
    _entryList,       \* StaticStorage::_entryList
    pc,               \* where the main context is: "idle", "drain", "scan", "call"
    position,         \* processEvents: position
    count,            \* processEvents: count
    currentTime,      \* processEvents: currentTime
    interruptFlags,   \* processEvents: interruptFlags
    flagsCopy,        \* getAndClearInterruptFlags: flagsCopy
    call,             \* processEvents: call, the callback being run
    nextId,           \* number of the next stored registration
    regsLeft,         \* registrations the behaviour may still store
    passStartId,      \* nextId when the running pass started
    calls,            \* entries invoked in the running pass, as found ready
    owed,             \* bits signalled since the last completed drain
    lastOp,           \* what became of the registration made by the last step
    _exitRequested,   \* BasicLoop::_exitRequested
    mainPc,           \* where main() is: "setup", "loopInfinite", "returned"
    exitCalledAt,     \* callbacks the pass had invoked when exit was first called
    _receiveBuffer,   \* SerialLineBuffer::_receiveBuffer, a RingBuffer
    fifo,             \* the elements written and neither read nor overwritten, oldest first
    out,              \* what the last call on the buffer was given and returned
    _eventList,       \* StaticEventLoop::_eventList (its _count is _count)
    deadline,         \* a Timer::Deadline object
    shell,            \* a SerialLineShell object
    shellPc           \* where pollEvent is: "idle", "receive"

vars == <<tick, ticksLeft, _interruptFlags, _count, _entryList, pc, position,
          count, currentTime, interruptFlags, flagsCopy, call, nextId,
          regsLeft, passStartId, calls, owed, lastOp, _exitRequested, mainPc,
          exitCalledAt, _receiveBuffer, fifo, out, _eventList, deadline,
          shell, shellPc>>

\* The variables of the event loop
loopVars == <<tick, ticksLeft, _interruptFlags, _count, _entryList, pc, position,
              count, currentTime, interruptFlags, flagsCopy, call, nextId,
              regsLeft, passStartId, calls, owed, lastOp, _exitRequested, mainPc,
              exitCalledAt>>

\* The variables of the serial line buffer
serialVars == <<_receiveBuffer, fifo, out>>

\* The state that the registrations, the interrupts, the steps of
\* processEvents and the tick counter leave alone
\* The variables of the serial line shell
shellVars == <<shell, shellPc>>

outerState == <<_exitRequested, mainPc, exitCalledAt, serialVars, _eventList, deadline,
                shellVars>>

\* Everything but the serial line buffer
besideSerial == <<loopVars, _eventList, deadline, shellVars>>

\* entryListSize, the number of elements of the array _entryList
entryListSize == Cardinality(DOMAIN _entryList)

\* lastOp when the last step was not a registration
NoOp == "none"

(***************************************************************************)
(* event::Entry                                                            *)
(***************************************************************************)
FlagNone == 0
FlagValid == 1
FlagImmediate == 2
FlagOnInterrupt == 4
FlagRepeat == 8

\* EnumFlags::isSet for a single-bit flag
isSet(flags, flag) == BitAnd(flags, flag) = flag /\ (flag # 0 \/ flags = flag)

\* EnumFlags::isOneSet
isOneSet(flags) == flags # 0

\* The callbacks of the application, and the null function pointer.
Fn == {"f", "g"}
NullFn == "null"

\* Registration record kept with an entry for the statements about it (not a
\* field of the C++ class): the registration number, the tick at the call
\* and the time or mask argument of the call.
NoReg == [id |-> 0, t |-> <<0, 0>>, arg |-> <<0, 0>>]

\* union Data is four bytes: w0 holds repeated.expireTimeMs, the low half of
\* delayed.expireTime and onInterrupt.interruptFlags; w1 holds
\* repeated.intervalMs and the high half of delayed.expireTime.
\* Data() : delayed({0_ms})
DataDefault == [w0 |-> 0, w1 |-> 0]

\* Data(Milliseconds expireTime)
DataDelayed(expireTime) == [w0 |-> expireTime[2], w1 |-> expireTime[1]]

\* Data(uint16_t expireTimeMs, uint16_t intervalMs)
DataRepeated(expireTimeMs, intervalMs) == [w0 |-> expireTimeMs, w1 |-> intervalMs]

\* Data(InterruptFlags): only onInterrupt is initialised, the other two
\* bytes of the union keep whatever the memory held (junk).
DataOnInterrupt(mask, junk) == [w0 |-> mask, w1 |-> junk]

\* delayed.expireTime read back from the union
delayedExpireTime(data) == <<data.w1, data.w0>>

\* Entry() : _call(), _flags()
InvalidEntry == [call |-> NullFn, data |-> DataDefault, flags |-> FlagNone, reg |-> NoReg]

\* canMerge that also compares the payload
canMergePayload(self, other) ==
    self.call = other.call /\ self.flags = other.flags /\ self.data = other.data

\* canMerge that compares the callback alone
canMergeCallOnly(self, other) == self.call = other.call

\* Entry::canMerge
canMerge(self, other) == self.call = other.call /\ self.flags = other.flags

\* isReady that tests the flag word of the loop in place of the snapshot
\* it is given
isReadyLiveFlags(self, now, intFlags) ==
    IF ~isSet(self.flags, FlagValid) THEN FALSE
    ELSE IF isSet(self.flags, FlagImmediate) THEN TRUE
    ELSE IF isSet(self.flags, FlagOnInterrupt)
         THEN isOneSet(BitAnd(self.data.w0, BitOr(intFlags, _interruptFlags)))
    ELSE IF isSet(self.flags, FlagRepeat)
         THEN ToInt16(Sub16(self.data.w0, Ticks16(now))) <= 0
    ELSE deltaTo(now, delayedExpireTime(self.data)) <= 0

\* Entry::isReady
isReady(self, now, intFlags) ==
    IF ~isSet(self.flags, FlagValid) THEN FALSE
    ELSE IF isSet(self.flags, FlagImmediate) THEN TRUE
    ELSE IF isSet(self.flags, FlagOnInterrupt)
         THEN isOneSet(BitAnd(self.data.w0, intFlags))
    ELSE IF isSet(self.flags, FlagRepeat)
         THEN ToInt16(Sub16(self.data.w0, Ticks16(now))) <= 0
    ELSE deltaTo(now, delayedExpireTime(self.data)) <= 0

\* isRemovedAfterCall that removes every entry it is asked about
isRemovedAfterCallAlways(self) == TRUE

\* isRemovedAfterCall that keeps every entry it is asked about
isRemovedAfterCallNever(self) == FALSE

\* Entry::isRemovedAfterCall
isRemovedAfterCall(self) == ~isSet(self.flags, FlagRepeat)

\* updateExpireTime that re-arms from the previous deadline
updateExpireTimeFromDeadline(self, now) ==
    IF ~isSet(self.flags, FlagImmediate)
    THEN [self EXCEPT !.data.w0 = Add16(self.data.w0, self.data.w1)]
    ELSE self

\* Entry::updateExpireTime: writes repeated.expireTimeMs for every entry
\* without the Immediate flag, whichever member of the union is in use
updateExpireTime(self, now) ==
    IF ~isSet(self.flags, FlagImmediate)
    THEN [self EXCEPT !.data.w0 = Add16(Ticks16(now), self.data.w1)]
    ELSE self

(***************************************************************************)
(* IntegerMath and RingBuffer                                              *)
(***************************************************************************)
\* The values of an element (uint8_t), three of them
Byte == {0, 1, 2}

\* IntegerMath::min
min(a, b) == IF a <= b THEN a ELSE b

\* IntegerMath::ringIncrement, as the value it leaves
ringIncrement(value, delta, size) ==
    IF delta # 0 /\ delta # size
    THEN LET rest == size - value
         IN  IF delta = rest THEN 0
             ELSE IF delta < rest THEN value + delta
             ELSE delta - rest
    ELSE value

\* addWithOverflow that reports no excess
addWithOverflowNoExcess(value, delta, size) ==
    LET rest == size - value
    IN  IF delta > rest THEN <<size, 0>> ELSE <<value + delta, 0>>

\* IntegerMath::addWithOverflow, as the pair <<value it leaves, result>>
addWithOverflow(value, delta, size) ==
    LET rest == size - value
    IN  IF delta > rest THEN <<size, delta - rest>> ELSE <<value + delta, 0>>

\* RingBuffer::RingBuffer(size); data is what the new array happens to hold
RingBuffer(size, data) ==
    [_size |-> size, _readPos |-> 0, _writePos |-> 0, _count |-> 0, _data |-> data]

\* memcpy(dest + at, src + from, n) on an array dest and a sequence src
CopyIn(dest, at, src, from, n) ==
    [i \in DOMAIN dest |-> IF i >= at /\ i < at + n THEN src[from + (i - at) + 1] ELSE dest[i]]

\* RingBuffer::write, as the buffer it leaves
write(self, elements) ==
    IF Len(elements) = 0 THEN self
    ELSE LET skip == IF Len(elements) > self._size THEN Len(elements) - self._size ELSE 0
             cnt == IF Len(elements) > self._size THEN self._size ELSE Len(elements)
             elementsToCopy == min(self._size - self._writePos, cnt)
             first == CopyIn(self._data, self._writePos, elements, skip, elementsToCopy)
             second == IF elementsToCopy < cnt
                       THEN CopyIn(first, 0, elements, skip + elementsToCopy, cnt - elementsToCopy)
                       ELSE first
             added == addWithOverflow(self._count, cnt, self._size)
         IN  [self EXCEPT !._data = second,
                          !._writePos = ringIncrement(self._writePos, cnt, self._size),
                          !._count = added[1],
                          !._readPos = ringIncrement(self._readPos, added[2], self._size)]

\* The n elements from the read position on, in the order of the two
\* batches that read and readToEnd copy
Batches(self, n) ==
    LET firstElementsToCopy == min(self._size - self._readPos, n)
    IN  [k \in 1 .. n |->
            IF k <= firstElementsToCopy
            THEN self._data[self._readPos + k - 1]
            ELSE self._data[k - firstElementsToCopy - 1]]

\* RingBuffer::read, as the pair <<buffer it leaves, elements copied out>>
read(self, cnt) ==
    IF cnt = 0 \/ self._count = 0 THEN <<self, <<>> >>
    ELSE LET n == IF cnt > self._count THEN self._count ELSE cnt
         IN  <<[self EXCEPT !._readPos = ringIncrement(self._readPos, n, self._size),
                            !._count = self._count - n],
               Batches(self, n)>>

\* RingBuffer::readToEnd, as the pair <<buffer it leaves, elements copied out>>
readToEnd(self, cnt, endMark) ==
    IF cnt = 0 \/ self._count = 0 THEN <<self, <<>> >>
    ELSE LET limit == IF cnt > self._count THEN self._count ELSE cnt
             all == Batches(self, limit)
             marks == {k \in 1 .. limit : all[k] = endMark}
             n == IF marks = {} THEN limit
                  ELSE CHOOSE k \in marks : \A l \in marks : k <= l
         IN  <<[self EXCEPT !._readPos = ringIncrement(self._readPos, n, self._size),
                            !._count = self._count - n],
               SubSeq(all, 1, n)>>

\* out when nothing was called on the buffer
NoOut == [op |-> "none"]

(***************************************************************************)
(* event::StaticStorage                                                    *)
(***************************************************************************)
\* addEntry without the test for a full list
addEntryNoLimit(list, cnt, entry, merge) ==
    IF merge /\ cnt > 0 /\ (\E i \in 0 .. (cnt - 1) : canMerge(entry, list[i]))
    THEN <<list, cnt>>
    ELSE <<[list EXCEPT ![cnt] = entry], cnt + 1>>

\* StaticStorage::addEntry, as the pair <<_entryList, _count>> it leaves
addEntry(list, cnt, entry, merge) ==
    IF cnt = Cardinality(DOMAIN list) THEN <<list, cnt>>
    ELSE IF merge /\ cnt > 0 /\ (\E i \in 0 .. (cnt - 1) : canMerge(entry, list[i]))
         THEN <<list, cnt>>
    ELSE <<[list EXCEPT ![cnt] = entry], cnt + 1>>

\* entryAt without the test of the position against the count
entryAtUnchecked(list, cnt, pos) ==
    IF pos \in DOMAIN list THEN list[pos] ELSE InvalidEntry

\* StaticStorage::entryAt
entryAt(list, cnt, pos) == IF pos >= cnt THEN InvalidEntry ELSE list[pos]

\* removeEntryAt that fills the hole with the last entry
removeEntryAtSwap(list, cnt, pos) ==
    IF pos >= cnt THEN <<list, cnt>>
    ELSE <<[list EXCEPT ![pos] = list[cnt - 1]], cnt - 1>>

\* removeEntryAt that clears the slot and leaves the count
removeEntryAtClear(list, cnt, pos) ==
    IF pos >= cnt THEN <<list, cnt>>
    ELSE <<[list EXCEPT ![pos] = InvalidEntry], cnt>>

\* removeEntryAt that drops the last entry instead of closing the gap
removeEntryAtTruncate(list, cnt, pos) ==
    IF pos >= cnt THEN <<list, cnt>> ELSE <<list, cnt - 1>>

\* removeEntryAt that closes the gap from one slot too far: the entry at
\* the position stays and the one behind it goes
removeEntryAtNext(list, cnt, pos) ==
    IF pos >= cnt THEN <<list, cnt>>
    ELSE LET lastElement == cnt - 1
         IN  <<[i \in DOMAIN list |-> IF i > pos /\ i < lastElement THEN list[i + 1] ELSE list[i]],
               cnt - 1>>

\* StaticStorage::removeEntryAt, as the pair <<_entryList, _count>> it leaves
removeEntryAt(list, cnt, pos) ==
    IF pos >= cnt THEN <<list, cnt>>
    ELSE LET lastElement == cnt - 1
         IN  <<[i \in DOMAIN list |-> IF i >= pos /\ i < lastElement THEN list[i + 1] ELSE list[i]],
               cnt - 1>>

(***************************************************************************)
(* event::BasicLoop: registration                                          *)
(***************************************************************************)
\* The main context may call the registration API between two passes and
\* from a running callback.
InMainCode == pc \in {"idle", "call"}

\* What became of a registration (for the statements about it).
addResult(entry, merge) ==
    IF _count = entryListSize THEN "full"
    ELSE IF addEntry(_entryList, _count, entry, merge)[2] = _count THEN "merged"
    ELSE "stored"

\* _storage.addEntry(entry, merge), with the bookkeeping of the registration
Register(entry, merge, arg) ==
    LET e == [entry EXCEPT !.reg = [id |-> nextId, t |-> tick, arg |-> arg]]
        r == addEntry(_entryList, _count, e, merge)
    IN  /\ InMainCode
        /\ (regsLeft > 0 \/ addResult(e, merge) # "stored")
        /\ _entryList' = r[1]
        /\ _count' = r[2]
        /\ nextId' = IF r[2] = _count THEN nextId ELSE nextId + 1
        /\ regsLeft' = IF r[2] = _count THEN regsLeft ELSE regsLeft - 1
        /\ lastOp' = addResult(e, merge)
        /\ UNCHANGED <<tick, ticksLeft, _interruptFlags, pc, position, count,
                       currentTime, interruptFlags, flagsCopy, call,
                       passStartId, calls, owed>>
        /\ UNCHANGED outerState

\* BasicLoop::addImmediateEvent
addImmediateEvent(fn, merge) ==
    Register([call |-> fn, data |-> DataDelayed(U32(0)),
              flags |-> BitOr(FlagValid, FlagImmediate), reg |-> NoReg],
             merge, U32(0))

\* BasicLoop::addPollEvent
addPollEvent(fn) ==
    Register([call |-> fn, data |-> DataDelayed(U32(0)),
              flags |-> BitOr(BitOr(FlagValid, FlagImmediate), FlagRepeat), reg |-> NoReg],
             FALSE, U32(0))

\* BasicLoop::addDelayedEvent
addDelayedEvent(fn, delay, merge) ==
    LET expireTime == DurationPlus(tick, delay)
    IN  Register([call |-> fn, data |-> DataDelayed(expireTime),
                  flags |-> FlagValid, reg |-> NoReg],
                 merge, delay)

\* BasicLoop::addRepeatedEvent
addRepeatedEvent(fn, delay) ==
    LET intervalMs == Ticks16(delay)
        expireTimeMs == Add16(Ticks16(tick), intervalMs)
    IN  Register([call |-> fn, data |-> DataRepeated(expireTimeMs, intervalMs),
                  flags |-> BitOr(FlagValid, FlagRepeat), reg |-> NoReg],
                 FALSE, delay)

\* BasicLoop::addInterruptEvent; junk is what the two bytes of the union
\* behind the mask happen to hold
addInterruptEvent(fn, mask, repeat, junk) ==
    LET flags == IF repeat
                 THEN BitOr(BitOr(FlagValid, FlagOnInterrupt), FlagRepeat)
                 ELSE BitOr(FlagValid, FlagOnInterrupt)
    IN  Register([call |-> fn, data |-> DataOnInterrupt(mask, junk),
                  flags |-> flags, reg |-> NoReg],
                 FALSE, U32(mask))

(***************************************************************************)
(* event::BasicLoop: interrupt flags                                       *)
(***************************************************************************)
\* getAndClearInterruptFlags without the InterruptLock
InterruptLockNone == FALSE

\* InterruptLock: interrupts are masked while getAndClearInterruptFlags is
\* between its read and its write of _interruptFlags
InterruptLockHeld == pc = "drain"

\* BasicLoop::signalInterrupt, run to completion by an interrupt handler:
\* the main context does not run while the handler does
signalInterrupt(mask) ==
    /\ ~InterruptLockHeld
    /\ _interruptFlags' = BitOr(_interruptFlags, mask)
    /\ owed' = BitOr(owed, mask)
    /\ lastOp' = NoOp
    /\ UNCHANGED <<tick, ticksLeft, _count, _entryList, pc, position, count,
                   currentTime, interruptFlags, flagsCopy, call, nextId,
                   regsLeft, passStartId, calls>>
    /\ UNCHANGED outerState

(***************************************************************************)
(* event::BasicLoop::processEvents                                         *)
(***************************************************************************)
\* the start of a pass that takes the size of the storage for the count
BeginPassCapacity ==
    /\ pc = "idle"
    /\ position' = 0
    /\ count' = entryListSize
    /\ currentTime' = tick
    /\ flagsCopy' = _interruptFlags
    /\ pc' = "drain"
    /\ passStartId' = nextId
    /\ calls' = <<>>
    /\ lastOp' = NoOp
    /\ UNCHANGED <<tick, ticksLeft, _interruptFlags, _count, _entryList,
                   interruptFlags, call, nextId, regsLeft, owed>>
    /\ UNCHANGED outerState

\* Lines 243-248 up to the read of _interruptFlags in
\* getAndClearInterruptFlags (the lock is taken)
BeginPass ==
    /\ pc = "idle"
    /\ position' = 0
    /\ count' = _count
    /\ currentTime' = tick
    /\ flagsCopy' = _interruptFlags
    /\ pc' = "drain"
    /\ passStartId' = nextId
    /\ calls' = <<>>
    /\ lastOp' = NoOp
    /\ UNCHANGED <<tick, ticksLeft, _interruptFlags, _count, _entryList,
                   interruptFlags, call, nextId, regsLeft, owed>>
    /\ UNCHANGED outerState

\* a drain that clears the flag word only when a stored entry waits for one
\* of the flags read
DrainClearMatched ==
    /\ pc = "drain"
    /\ _interruptFlags' =
          IF \E i \in 0 .. (_count - 1) :
                 /\ isSet(_entryList[i].flags, FlagOnInterrupt)
                 /\ isOneSet(BitAnd(_entryList[i].data.w0, flagsCopy))
          THEN 0 ELSE flagsCopy
    /\ interruptFlags' = flagsCopy
    /\ owed' = 0
    /\ pc' = "scan"
    /\ lastOp' = NoOp
    /\ UNCHANGED <<tick, ticksLeft, _count, _entryList, position, count,
                   currentTime, flagsCopy, call, nextId, regsLeft, passStartId,
                   calls>>
    /\ UNCHANGED outerState

\* getAndClearInterruptFlags: the write of 0 and the return (lock released)
DrainClear ==
    /\ pc = "drain"
    /\ _interruptFlags' = 0
    /\ interruptFlags' = flagsCopy
    /\ owed' = 0
    /\ pc' = "scan"
    /\ lastOp' = NoOp
    /\ UNCHANGED <<tick, ticksLeft, _count, _entryList, position, count,
                   currentTime, flagsCopy, call, nextId, regsLeft, passStartId,
                   calls>>
    /\ UNCHANGED outerState

\* the loop bounded by the count of the storage, not by the local copy
WhileConditionStore == position < _count

\* the loop bounded by the size of the storage
WhileConditionSize == position < entryListSize

\* while (position < count)
WhileCondition == position < count

\* One iteration of the while loop up to the call of the callback
ScanStep ==
    /\ pc = "scan"
    /\ WhileCondition
    /\ LET event == entryAt(_entryList, _count, position)
       IN  IF isReady(event, currentTime, interruptFlags)
           THEN /\ call' = event.call
                /\ calls' = Append(calls, event)
                /\ IF isRemovedAfterCall(event)
                   THEN LET r == removeEntryAt(_entryList, _count, position)
                        IN  /\ _entryList' = r[1]
                            /\ _count' = r[2]
                            /\ count' = count - 1
                            /\ position' = position
                   ELSE /\ _entryList' = [_entryList EXCEPT
                                            ![position] = updateExpireTime(event, currentTime)]
                        /\ position' = position + 1
                        /\ UNCHANGED <<_count, count>>
                /\ pc' = "call"
           ELSE /\ position' = position + 1
                /\ UNCHANGED <<_entryList, _count, count, call, calls, pc>>
    /\ lastOp' = NoOp
    /\ UNCHANGED <<tick, ticksLeft, _interruptFlags, currentTime, interruptFlags,
                   flagsCopy, nextId, regsLeft, passStartId, owed>>
    /\ UNCHANGED outerState

\* The callback returns
CallReturn ==
    /\ pc = "call"
    /\ pc' = "scan"
    /\ call' = NullFn
    /\ lastOp' = NoOp
    /\ UNCHANGED <<tick, ticksLeft, _interruptFlags, _count, _entryList, position,
                   count, currentTime, interruptFlags, flagsCopy, nextId,
                   regsLeft, passStartId, calls, owed>>
    /\ UNCHANGED outerState

\* The while loop ends and processEvents returns
EndPass ==
    /\ pc = "scan"
    /\ ~WhileCondition
    /\ pc' = "idle"
    /\ position' = 0
    /\ count' = 0
    /\ currentTime' = <<0, 0>>
    /\ interruptFlags' = 0
    /\ flagsCopy' = 0
    /\ calls' = <<>>
    /\ passStartId' = 0
    /\ lastOp' = NoOp
    /\ UNCHANGED <<tick, ticksLeft, _interruptFlags, _count, _entryList, call,
                   nextId, regsLeft, owed>>
    /\ UNCHANGED outerState

(***************************************************************************)
(* event::BasicLoop: loopInfinite and exit                                 *)
(***************************************************************************)
\* The steps below change nothing of the storage and of a running pass
LoopControlOnly ==
    /\ lastOp' = NoOp
    /\ UNCHANGED <<tick, ticksLeft, _interruptFlags, _count, _entryList, pc,
                   position, count, currentTime, interruptFlags, flagsCopy,
                   call, nextId, regsLeft, passStartId, calls, owed, serialVars,
                   _eventList, deadline, shellVars>>

\* The application runs its own code before it enters the loop and in the
\* callbacks the loop invokes
AppRuns == (mainPc = "setup" /\ pc = "idle") \/ pc = "call"

\* main() calls loopInfinite
EnterLoopInfinite ==
    /\ mainPc = "setup"
    /\ pc = "idle"
    /\ mainPc' = "loopInfinite"
    /\ UNCHANGED <<_exitRequested, exitCalledAt>>
    /\ LoopControlOnly

\* a loop that does not look at _exitRequested
LoopConditionAlways == TRUE

\* while (!_exitRequested)
LoopCondition == ~_exitRequested

\* loopInfinite: the condition holds and loopOnce calls processEvents
LoopOnce ==
    /\ mainPc = "loopInfinite"
    /\ LoopCondition
    /\ BeginPass

\* loopInfinite: the condition fails and the function returns
LoopInfiniteReturn ==
    /\ mainPc = "loopInfinite"
    /\ pc = "idle"
    /\ ~LoopCondition
    /\ mainPc' = "returned"
    /\ UNCHANGED <<_exitRequested, exitCalledAt>>
    /\ LoopControlOnly

\* BasicLoop::exit
exit ==
    /\ AppRuns
    /\ _exitRequested' = TRUE
    /\ exitCalledAt' = IF _exitRequested THEN exitCalledAt ELSE Len(calls)
    /\ UNCHANGED mainPc
    /\ LoopControlOnly

(***************************************************************************)
(* Timer                                                                   *)
(***************************************************************************)
\* The millisecond tick counter advances (it wraps at 2^32)
Tick ==
    /\ InMainCode
    /\ ticksLeft > 0
    /\ tick' = DurationPlus(tick, U32(1))
    /\ ticksLeft' = ticksLeft - 1
    /\ lastOp' = NoOp
    /\ UNCHANGED <<_interruptFlags, _count, _entryList, pc, position, count,
                   currentTime, interruptFlags, flagsCopy, call, nextId,
                   regsLeft, passStartId, calls, owed>>
    /\ UNCHANGED outerState

\* The millisecond tick counter is read again after d milliseconds in which
\* the main context did not look at it (a long callback, a blocked loop)
Advance(d) ==
    /\ InMainCode
    /\ ticksLeft > 0
    /\ tick' = DurationPlus(tick, d)
    /\ ticksLeft' = ticksLeft - 1
    /\ lastOp' = NoOp
    /\ UNCHANGED <<_interruptFlags, _count, _entryList, pc, position, count,
                   currentTime, interruptFlags, flagsCopy, call, nextId,
                   regsLeft, passStartId, calls, owed>>
    /\ UNCHANGED outerState

(***************************************************************************)
(* RingBuffer and SerialLineBuffer: the calls                              *)
(***************************************************************************)
\* The sequences of at most n elements
Elements(n) == UNION {[1 .. k -> Byte] : k \in 0 .. n}

\* The last n elements of a sequence
LastOf(seq, n) == IF Len(seq) > n THEN SubSeq(seq, Len(seq) - n + 1, Len(seq)) ELSE seq

\* A sequence without its first n elements
Rest(seq, n) == SubSeq(seq, n + 1, Len(seq))

\* _receiveBuffer.write(elements, count)
RingWrite(elements) ==
    /\ _receiveBuffer' = write(_receiveBuffer, elements)
    /\ fifo' = LastOf(fifo \o elements, _receiveBuffer._size)
    /\ out' = [op |-> "write", n |-> Len(elements),
               lost |-> Len(fifo) + Len(elements) - Len(fifo')]
    /\ UNCHANGED besideSerial

\* _receiveBuffer.read(elements, count)
RingRead(cnt) ==
    LET r == read(_receiveBuffer, cnt)
        n == min(cnt, Len(fifo))
    IN  /\ _receiveBuffer' = r[1]
        /\ fifo' = Rest(fifo, n)
        /\ out' = [op |-> "read", n |-> cnt, data |-> r[2], expect |-> SubSeq(fifo, 1, n)]
        /\ UNCHANGED besideSerial

\* SerialLineBuffer::synchronize with the receive buffer enabled: the bytes
\* the serial line has available (at most 32, handed over by one call of
\* its receive) are written to the receive buffer
synchronize(received) ==
    /\ _receiveBuffer' = write(_receiveBuffer, received)
    /\ fifo' = LastOf(fifo \o received, _receiveBuffer._size)
    /\ out' = [op |-> "synchronize", n |-> Len(received)]
    /\ UNCHANGED besideSerial

\* SerialLineBuffer::receiveBlock with the receive buffer enabled
receiveBlock(dataSize, blockEndMark) ==
    LET wanted == min(dataSize, _receiveBuffer._count)
        r == IF wanted > 0
             THEN readToEnd(_receiveBuffer, wanted, blockEndMark)
             ELSE <<_receiveBuffer, <<>> >>
        bytesToRead == Len(r[2])
    IN  /\ _receiveBuffer' = r[1]
        /\ fifo' = Rest(fifo, bytesToRead)
        /\ out' = [op |-> "receiveBlock", dataSize |-> dataSize,
                   blockEndMark |-> blockEndMark, data |-> r[2],
                   dataReceived |-> bytesToRead,
                   status |-> IF bytesToRead < dataSize THEN "Partial" ELSE "Success"]
        /\ UNCHANGED besideSerial

(***************************************************************************)
(* Event and StaticEventLoop, the predecessor of event::Entry and          *)
(* event::Loop                                                             *)
(***************************************************************************)
\* Event::Event(type, call, data)
Event(type, fn, data) == [call |-> fn, data |-> data, type |-> type, reg |-> NoReg]

\* Event::Event() : _call(), _data(0), _type(Type::Invalid)
invalidEvent == Event("Invalid", NullFn, <<0, 0>>)

\* operator& on two uint32_t
And32(a, b) == <<BitAnd(a[1], b[1]), BitAnd(a[2], b[2])>>

\* canMerge that also compares the data
Event_canMergeData(self, other) ==
    self.call = other.call /\ self.type = other.type /\ self.data = other.data

\* Event::canMerge
Event_canMerge(self, other) == self.call = other.call /\ self.type = other.type

\* Event::isReady
Event_isReady(self, now, intFlags) ==
    IF self.type = "Immediate" \/ self.type = "Poll" THEN TRUE
    ELSE IF self.type = "Delayed"
         THEN And32(DurationMinus(self.data, now), <<SignBit16, 0>>) # <<0, 0>>
    ELSE IF self.type = "OnInterrupt"
         THEN And32(self.data, U32(intFlags)) # <<0, 0>>
    ELSE FALSE

\* Event::isRemovedAfterCall
Event_isRemovedAfterCall(self) == self.type # "Poll"

\* eventListSize, the number of elements of the array _eventList
eventListSize == Cardinality(DOMAIN _eventList)

\* StaticEventLoop::addEvent, as the pair <<_eventList, _count>> it leaves
addEvent(list, cnt, event, merge) ==
    IF cnt = Cardinality(DOMAIN list) THEN <<list, cnt>>
    ELSE IF merge /\ cnt > 0 /\ (\E i \in 0 .. (cnt - 1) : Event_canMerge(event, list[i]))
         THEN <<list, cnt>>
    ELSE <<[list EXCEPT ![cnt] = event], cnt + 1>>

\* StaticEventLoop::eventAt
eventAt(list, cnt, pos) == IF pos >= cnt THEN invalidEvent ELSE list[pos]

\* StaticEventLoop::removeEventAt, as the pair <<_eventList, _count>> it leaves
removeEventAt(list, cnt, pos) ==
    IF pos >= cnt THEN <<list, cnt>>
    ELSE LET lastElement == cnt - 1
         IN  <<[i \in DOMAIN list |-> IF i >= pos /\ i < lastElement THEN list[i + 1] ELSE list[i]],
               cnt - 1>>

\* What became of a registration with the StaticEventLoop
addEventResult(event, merge) ==
    IF _count = eventListSize THEN "full"
    ELSE IF addEvent(_eventList, _count, event, merge)[2] = _count THEN "merged"
    ELSE "stored"

\* addEvent(event, merge), with the bookkeeping of the registration
RegisterEvent(event, merge, arg) ==
    LET e == [event EXCEPT !.reg = [id |-> nextId, t |-> tick, arg |-> arg]]
        r == addEvent(_eventList, _count, e, merge)
    IN  /\ InMainCode
        /\ (regsLeft > 0 \/ addEventResult(e, merge) # "stored")
        /\ _eventList' = r[1]
        /\ _count' = r[2]
        /\ nextId' = IF r[2] = _count THEN nextId ELSE nextId + 1
        /\ regsLeft' = IF r[2] = _count THEN regsLeft ELSE regsLeft - 1
        /\ lastOp' = addEventResult(e, merge)
        /\ UNCHANGED <<tick, ticksLeft, _interruptFlags, _entryList, pc, position,
                       count, currentTime, interruptFlags, flagsCopy, call,
                       passStartId, calls, owed>>
        /\ UNCHANGED <<_exitRequested, mainPc, exitCalledAt, serialVars, deadline,
                       shellVars>>

\* EventLoop::addImmediateEvent
EventLoop_addImmediateEvent(fn, merge) ==
    RegisterEvent(Event("Immediate", fn, U32(0)), merge, U32(0))

\* EventLoop::addPollEvent
EventLoop_addPollEvent(fn) ==
    RegisterEvent(Event("Poll", fn, U32(0)), FALSE, U32(0))

\* EventLoop::addDelayedEvent(fn, Milliseconds delay, merge)
EventLoop_addDelayedEvent(fn, delay, merge) ==
    LET data == DurationPlus(tick, delay)
    IN  RegisterEvent(Event("Delayed", fn, data), merge, delay)

\* EventLoop::addInterruptEvent
EventLoop_addInterruptEvent(fn, mask, merge) ==
    RegisterEvent(Event("OnInterrupt", fn, U32(mask)), merge, U32(mask))

\* EventLoop::setInterrupt, run to completion by an interrupt handler
setInterrupt(mask) ==
    /\ ~InterruptLockHeld
    /\ _interruptFlags' = BitOr(_interruptFlags, mask)
    /\ owed' = BitOr(owed, mask)
    /\ lastOp' = NoOp
    /\ UNCHANGED <<tick, ticksLeft, _count, _entryList, pc, position, count,
                   currentTime, interruptFlags, flagsCopy, call, nextId,
                   regsLeft, passStartId, calls>>
    /\ UNCHANGED outerState

\* EventLoop::processEvent up to the read of _interruptFlags in
\* getAndClearInterruptFlags (the lock is taken)
processEventBegin ==
    /\ pc = "idle"
    /\ position' = 0
    /\ count' = _count
    /\ currentTime' = tick
    /\ flagsCopy' = _interruptFlags
    /\ pc' = "drain"
    /\ passStartId' = nextId
    /\ calls' = <<>>
    /\ lastOp' = NoOp
    /\ UNCHANGED <<tick, ticksLeft, _interruptFlags, _count, _entryList,
                   interruptFlags, call, nextId, regsLeft, owed>>
    /\ UNCHANGED outerState

\* EventLoop::getAndClearInterruptFlags: the write of 0 and the return
processEventDrain ==
    /\ pc = "drain"
    /\ _interruptFlags' = 0
    /\ interruptFlags' = flagsCopy
    /\ owed' = 0
    /\ pc' = "scan"
    /\ lastOp' = NoOp
    /\ UNCHANGED <<tick, ticksLeft, _count, _entryList, position, count,
                   currentTime, flagsCopy, call, nextId, regsLeft, passStartId,
                   calls>>
    /\ UNCHANGED outerState

\* EventLoop::processEvent: one iteration of the while loop up to the call
\* of the event function
processEventStep ==
    /\ pc = "scan"
    /\ position < count
    /\ LET event == eventAt(_eventList, _count, position)
       IN  IF Event_isReady(event, currentTime, interruptFlags)
           THEN /\ call' = event.call
                /\ calls' = Append(calls, event)
                /\ IF Event_isRemovedAfterCall(event)
                   THEN LET r == removeEventAt(_eventList, _count, position)
                        IN  /\ _eventList' = r[1]
                            /\ _count' = r[2]
                            /\ count' = count - 1
                            /\ position' = position
                   ELSE /\ position' = position + 1
                        /\ UNCHANGED <<_eventList, _count, count>>
                /\ pc' = "call"
           ELSE /\ position' = position + 1
                /\ UNCHANGED <<_eventList, _count, count, call, calls, pc>>
    /\ lastOp' = NoOp
    /\ UNCHANGED <<tick, ticksLeft, _interruptFlags, _entryList, currentTime,
                   interruptFlags, flagsCopy, nextId, regsLeft, passStartId, owed>>
    /\ UNCHANGED <<_exitRequested, mainPc, exitCalledAt, serialVars, deadline,
                   shellVars>>

\* EventLoop::processEvent: the event function returns
processEventCallReturn ==
    /\ pc = "call"
    /\ pc' = "scan"
    /\ call' = NullFn
    /\ lastOp' = NoOp
    /\ UNCHANGED <<tick, ticksLeft, _interruptFlags, _count, _entryList, position,
                   count, currentTime, interruptFlags, flagsCopy, nextId,
                   regsLeft, passStartId, calls, owed>>
    /\ UNCHANGED outerState

\* EventLoop::processEvent: the while loop ends and the function returns
processEventEnd ==
    /\ pc = "scan"
    /\ ~(position < count)
    /\ pc' = "idle"
    /\ position' = 0
    /\ count' = 0
    /\ currentTime' = <<0, 0>>
    /\ interruptFlags' = 0
    /\ flagsCopy' = 0
    /\ calls' = <<>>
    /\ passStartId' = 0
    /\ lastOp' = NoOp
    /\ UNCHANGED <<tick, ticksLeft, _interruptFlags, _count, _entryList, call,
                   nextId, regsLeft, owed>>
    /\ UNCHANGED outerState

\* EventLoop::processEvent, step by step
processEvent ==
    \/ processEventBegin
    \/ processEventDrain
    \/ processEventStep
    \/ processEventCallReturn
    \/ processEventEnd

(***************************************************************************)
(* Timer::Deadline                                                         *)
(***************************************************************************)
\* Deadline::Deadline(timeout) and the value restart(timeout) assigns, at
\* the tick now; t and timeout are kept for the statements about it
Deadline(now, timeout) ==
    [_endTime |-> DurationPlus(now, timeout), t |-> now, timeout |-> timeout]

\* Deadline::hasTimeout
Deadline_hasTimeout(self, now) ==
    And32(DurationMinus(self._endTime, now), <<4096, 0>>) # <<0, 0>>

\* Deadline::isInTime
Deadline_isInTime(self, now) ==
    And32(DurationMinus(self._endTime, now), <<4096, 0>>) = <<0, 0>>

\* Deadline::restart
restart(timeout) ==
    /\ deadline' = Deadline(tick, timeout)
    /\ lastOp' = NoOp
    /\ UNCHANGED <<tick, ticksLeft, _interruptFlags, _count, _entryList, pc,
                   position, count, currentTime, interruptFlags, flagsCopy,
                   call, nextId, regsLeft, passStartId, calls, owed>>
    /\ UNCHANGED <<_exitRequested, mainPc, exitCalledAt, serialVars, _eventList,
                   shellVars>>

(***************************************************************************)
(* SerialLineShell                                                         *)
(***************************************************************************)
\* enum class Key
KeyNone == 0
KeyCursorUp == 1
KeyCursorDown == 2
KeyCursorForward == 3
KeyCursorBack == 4
KeyBackspace == 8
KeyTab == 9
KeyReturn == 13
KeyEscape == 27

\* SerialLineShell::SerialLineShell(serialLine, lineBufferSize), at the
\* tick now: the line buffer has lineBufferSize + 1 bytes, all 0. overrun
\* (not a member) tells whether a byte was written behind the line buffer.
SerialLineShell(lineBufferSize, now) ==
    [_lineBufferMaximumSize |-> lineBufferSize,
     _lineLength |-> 0,
     _lineCursorPosition |-> 0,
     _lineBuffer |-> [i \in 0 .. lineBufferSize |-> 0],
     _inputMode |-> "LineEdit",
     _lineExpansionFn |-> FALSE,
     _sendPrompt |-> TRUE,
     _escapeDeadline |-> Deadline(now, U32(10)),
     _escapeState |-> "None",
     overrun |-> FALSE]

\* SerialLineShell::isPromptMode
isPromptMode(self) == self._inputMode = "LineEdit" \/ self._inputMode = "HiddenEdit"

\* SerialLineShell::handleEscape, as the pair <<shell, key>> it leaves
handleEscape(self, c, now) ==
    IF self._escapeState = "None"
    THEN IF c = KeyEscape
         THEN <<[self EXCEPT !._escapeState = "Escape",
                             !._escapeDeadline = Deadline(now, U32(10))], KeyNone>>
         ELSE IF c = 127 THEN <<self, KeyBackspace>>
         ELSE IF c = 10 THEN <<self, KeyReturn>>
         ELSE <<self, KeyNone>>
    ELSE IF self._escapeState = "Escape"
    THEN IF c = 91
         THEN <<[self EXCEPT !._escapeState = "ControlSequence"], KeyNone>>
         ELSE <<[self EXCEPT !._escapeState = "None"], KeyNone>>
    ELSE IF c >= 64
         THEN <<[self EXCEPT !._escapeState = "None"],
                IF c = 65 THEN KeyCursorUp
                ELSE IF c = 66 THEN KeyCursorDown
                ELSE IF c = 67 THEN KeyCursorForward
                ELSE IF c = 68 THEN KeyCursorBack
                ELSE KeyNone>>
         ELSE <<self, KeyNone>>

\* SerialLineShell::insertCharacter
insertCharacter(self, c) ==
    LET cursor == self._lineCursorPosition
        length == self._lineLength
        buffer == self._lineBuffer
        moved == [i \in DOMAIN buffer |->
                    IF cursor < length /\ i > cursor /\ i <= length
                    THEN buffer[i - 1] ELSE buffer[i]]
        lastWritten == IF cursor < length THEN length ELSE cursor
    IN  [self EXCEPT
            !._lineBuffer = [i \in DOMAIN buffer |-> IF i = cursor THEN c ELSE moved[i]],
            !._lineCursorPosition = (cursor + 1) % 256,
            !._lineLength = (length + 1) % 256,
            !.overrun = self.overrun \/ lastWritten > self._lineBufferMaximumSize]

\* SerialLineShell::deleteCharacter
deleteCharacter(self) ==
    LET cursor == self._lineCursorPosition
        length == self._lineLength
        buffer == self._lineBuffer
    IN  IF cursor > 0 /\ length > 0
        THEN [self EXCEPT
                 !._lineBuffer = [i \in DOMAIN buffer |->
                                    IF i >= cursor - 1 /\ i <= length - 2 /\ (i + 1) \in DOMAIN buffer
                                    THEN buffer[i + 1] ELSE buffer[i]],
                 !._lineCursorPosition = cursor - 1,
                 !._lineLength = length - 1]
        ELSE self

\* SerialLineShell::handleLineEdit from the return of the callback
\* _lineExpansionFn on (lines 237-245): expansion is what the callback
\* returns and what it leaves in line and cursorPosition
expandLine(self, expansion) ==
    IF expansion.result = "Failed" THEN self
    ELSE LET length == Len(expansion.line) % 256
         IN  [self EXCEPT
                 !._lineLength = length,
                 !._lineBuffer = [i \in DOMAIN self._lineBuffer |->
                                    IF i < length THEN expansion.line[i + 1]
                                    ELSE self._lineBuffer[i]],
                 !._lineCursorPosition = IF expansion.cursorPosition > length
                                         THEN length ELSE expansion.cursorPosition,
                 !.overrun = self.overrun \/ length > self._lineBufferMaximumSize + 1]

\* SerialLineShell::handleLineEdit up to the call of _lineExpansionFn, which
\* is a step of its own
handleLineEdit(self, c) ==
    IF c >= 32 /\ c <= 126
    THEN IF self._lineLength = self._lineBufferMaximumSize THEN self
         ELSE insertCharacter(self, c)
    ELSE IF c = KeyCursorForward
    THEN IF self._inputMode # "HiddenEdit" /\ self._lineCursorPosition < self._lineLength
         THEN [self EXCEPT !._lineCursorPosition = self._lineCursorPosition + 1]
         ELSE self
    ELSE IF c = KeyCursorBack
    THEN IF self._inputMode # "HiddenEdit" /\ self._lineCursorPosition > 0
         THEN [self EXCEPT !._lineCursorPosition = self._lineCursorPosition - 1]
         ELSE self
    ELSE IF c = KeyBackspace
    THEN IF self._lineLength > 0 /\ self._lineCursorPosition > 0
         THEN deleteCharacter(self)
         ELSE self
    ELSE IF c = KeyReturn
    THEN [self EXCEPT !._lineLength = 0, !._lineCursorPosition = 0, !._sendPrompt = TRUE]
    ELSE self

\* SerialLineShell::handleInput
handleInput(self, c) ==
    IF self._inputMode = "LineEdit" \/ self._inputMode = "HiddenEdit"
    THEN handleLineEdit(self, c)
    ELSE self

\* handleInput(c) reaches the call of _lineExpansionFn (lines 134-142 and
\* 232-237)
callsLineExpansionFn(self, c) ==
    /\ self._inputMode = "LineEdit" \/ self._inputMode = "HiddenEdit"
    /\ c = KeyTab \/ c = KeyEscape
    /\ self._lineExpansionFn

\* No SerialLineShell has been constructed
NoShell == [_lineBufferMaximumSize |-> 0]

\* A SerialLineShell has been constructed
UsesShell == shell # NoShell

\* What the program does once it has written behind the line buffer is
\* undefined; the steps of the shell are followed up to that write
ShellRuns == UsesShell /\ ~shell.overrun

\* SerialLineShell::pollEvent up to the receive loop (lines 62-69)
pollEventBegin ==
    LET prompted == IF shell._sendPrompt /\ isPromptMode(shell)
                    THEN [shell EXCEPT !._sendPrompt = FALSE] ELSE shell
        timeout == /\ prompted._escapeState # "None"
                   /\ Deadline_hasTimeout(prompted._escapeDeadline, tick)
        escaped == [prompted EXCEPT !._escapeState = "None"]
    IN  /\ ShellRuns
        /\ shellPc = "idle"
        /\ shell' = IF timeout THEN handleInput(escaped, KeyEscape) ELSE prompted
        /\ shellPc' = IF timeout /\ callsLineExpansionFn(escaped, KeyEscape)
                      THEN "lineExpansion" ELSE "receive"
        /\ UNCHANGED <<loopVars, serialVars, _eventList, deadline>>

\* SerialLineShell::pollEvent: one iteration of the receive loop (lines
\* 71-79) with the byte the serial line hands over
pollEventReceive(readByte) ==
    LET escaped == handleEscape(shell, readByte, tick)
        key == escaped[2]
        c == IF key # KeyNone THEN key ELSE readByte
        handled == escaped[1]._escapeState = "None"
    IN  /\ ShellRuns
        /\ shellPc = "receive"
        /\ shell' = IF handled THEN handleInput(escaped[1], c) ELSE escaped[1]
        /\ shellPc' = IF handled /\ callsLineExpansionFn(escaped[1], c)
                      THEN "lineExpansion" ELSE "receive"
        /\ UNCHANGED <<loopVars, serialVars, _eventList, deadline>>

\* The callback _lineExpansionFn returns and handleLineEdit takes its result
\* (lines 237-245); pollEvent goes on with its receive loop
lineExpansionReturn(expansion) ==
    /\ ShellRuns
    /\ shellPc = "lineExpansion"
    /\ shell' = expandLine(shell, expansion)
    /\ shellPc' = "receive"
    /\ UNCHANGED <<loopVars, serialVars, _eventList, deadline>>

\* SerialLineShell::pollEvent: the serial line has no byte and the function
\* returns
pollEventReturn ==
    /\ ShellRuns
    /\ shellPc = "receive"
    /\ shellPc' = "idle"
    /\ UNCHANGED shell
    /\ UNCHANGED <<loopVars, serialVars, _eventList, deadline>>

\* SerialLineShell::setInputMode
setInputMode(inputMode) ==
    /\ ShellRuns
    /\ shellPc = "idle"
    /\ shell' = IF shell._inputMode # inputMode
                THEN LET changed == [shell EXCEPT !._inputMode = inputMode]
                     IN  IF isPromptMode(changed)
                         THEN [changed EXCEPT !._sendPrompt = TRUE] ELSE changed
                ELSE shell
    /\ UNCHANGED shellPc
    /\ UNCHANGED <<loopVars, serialVars, _eventList, deadline>>

\* SerialLineShell::setLineExpansionFn; the function pointer as TRUE, the
\* null pointer as FALSE
setLineExpansionFn(lineExpansionFn) ==
    /\ ShellRuns
    /\ shellPc = "idle"
    /\ shell' = [shell EXCEPT !._lineExpansionFn = lineExpansionFn]
    /\ UNCHANGED shellPc
    /\ UNCHANGED <<loopVars, serialVars, _eventList, deadline>>

(***************************************************************************)
(* Specifications                                                          *)
(***************************************************************************)
\* The state after construction of a loop with a storage of listSize
\* entries, at one of the given values of the tick counter.
InitLoop(listSize, startTicks, maxRegs, maxTicks) ==
    /\ tick \in startTicks
    /\ ticksLeft = maxTicks
    /\ _interruptFlags = 0
    /\ _count = 0
    /\ _entryList = [i \in 0 .. (listSize - 1) |-> InvalidEntry]
    /\ pc = "idle"
    /\ position = 0
    /\ count = 0
    /\ currentTime = <<0, 0>>
    /\ interruptFlags = 0
    /\ flagsCopy = 0
    /\ call = NullFn
    /\ nextId = 1
    /\ regsLeft = maxRegs
    /\ passStartId = 0
    /\ calls = <<>>
    /\ owed = 0
    /\ lastOp = NoOp
    /\ _exitRequested = FALSE
    /\ mainPc = "setup"
    /\ exitCalledAt = 0

\* No serial line buffer is in use (both of its ring buffers disabled,
\* nothing called on it)
InitNoSerial ==
    /\ _receiveBuffer = RingBuffer(0, <<>>)
    /\ fifo = <<>>
    /\ out = NoOut

\* No Deadline has been created
NoDeadline == [_endTime |-> <<0, 0>>, t |-> <<0, 0>>, timeout |-> <<0, 0>>]

InitNoShell ==
    /\ shell = NoShell
    /\ shellPc = "idle"

\* No StaticEventLoop, no Deadline and no SerialLineShell are in use
InitNoLegacy ==
    /\ _eventList = <<>>
    /\ deadline = NoDeadline
    /\ InitNoShell

\* A loop on its own
InitWith(listSize, startTicks, maxRegs, maxTicks) ==
    /\ InitLoop(listSize, startTicks, maxRegs, maxTicks)
    /\ InitNoSerial
    /\ InitNoLegacy

\* BasicLoop::processEvents, step by step
Pass == BeginPass \/ DrainClear \/ ScanStep \/ CallReturn \/ EndPass

\* Tick values at construction: zero, just below the wrap of the low 16 bits
\* and just below the wrap of all 32 bits
TickZero == <<0, 0>>
TickBelowWrap16 == <<0, Word16 - 2>>
TickBelowWrap32 == <<Word16 - 1, Word16 - 2>>

(* The loop with every kind of event. *)
LoopFn == {"f"}

Init == InitWith(LoopListSize, {TickZero}, LoopMaxRegs, LoopMaxTicks)

Next ==
    \/ Pass
    \/ Tick
    \/ \E fn \in LoopFn, merge \in BOOLEAN : addImmediateEvent(fn, merge)
    \/ \E fn \in LoopFn : addPollEvent(fn)
    \/ \E fn \in LoopFn, merge \in BOOLEAN : addDelayedEvent(fn, U32(1), merge)
    \/ \E fn \in LoopFn : addRepeatedEvent(fn, U32(1))
    \/ \E fn \in LoopFn, repeat \in BOOLEAN : addInterruptEvent(fn, 1, repeat, 0)
    \/ signalInterrupt(1)

Spec == Init /\ [][Next]_vars

(* Interrupt events only. *)
IrqMasks == {1, 3}
IrqSignals == {1, 2}
IrqJunk == {0, 1}

InitIrq == InitWith(IrqListSize, {TickZero}, IrqMaxRegs, IrqMaxTicks)

NextIrq ==
    \/ Pass
    \/ Tick
    \/ \E fn \in LoopFn, mask \in IrqMasks, repeat \in BOOLEAN, junk \in IrqJunk :
           addInterruptEvent(fn, mask, repeat, junk)
    \/ \E mask \in IrqSignals : signalInterrupt(mask)

SpecIrq == InitIrq /\ [][NextIrq]_vars

(* Timer events only. *)
TimerDelays == {U32(0), U32(2), <<SignBit16 - 1, Word16 - 1>>}
TimerIntervals == {U32(1), U32(2)}

InitTimer == InitWith(TimerListSize, {TickBelowWrap16, TickBelowWrap32},
                      TimerMaxRegs, TimerMaxTicks)

NextTimer ==
    \/ Pass
    \/ Tick
    \/ \E fn \in LoopFn, delay \in TimerDelays : addDelayedEvent(fn, delay, FALSE)
    \/ \E fn \in LoopFn, delay \in TimerIntervals : addRepeatedEvent(fn, delay)

SpecTimer == InitTimer /\ [][NextTimer]_vars

(* One-shot events registered with and without merge. *)
MergeDelays == {U32(1), U32(2)}

InitMerge == InitWith(MergeListSize, {TickZero}, MergeMaxRegs, MergeMaxTicks)

NextMerge ==
    \/ Pass
    \/ Tick
    \/ \E fn \in Fn, merge \in BOOLEAN : addImmediateEvent(fn, merge)
    \/ \E fn \in Fn, delay \in MergeDelays, merge \in BOOLEAN :
           addDelayedEvent(fn, delay, merge)

SpecMerge == InitMerge /\ [][NextMerge]_vars

(* Entries that are removed and entries that stay, in a larger storage. *)
OrderDelays == {U32(0), U32(1)}

InitOrder == InitWith(OrderListSize, {TickZero}, OrderMaxRegs, OrderMaxTicks)

NextOrder ==
    \/ Pass
    \/ Tick
    \/ \E fn \in LoopFn : addImmediateEvent(fn, FALSE)
    \/ \E fn \in LoopFn : addPollEvent(fn)
    \/ \E fn \in LoopFn, delay \in OrderDelays : addDelayedEvent(fn, delay, FALSE)

SpecOrder == InitOrder /\ [][NextOrder]_vars

(* Repeated events over the whole range of intervals and of gaps between   *)
(* two looks at the tick counter.                                          *)
RepeatIntervals == {U32(1), U32(2), U32(SignBit16 - 1)}
RepeatGaps == {U32(1), U32(SignBit16 - 2), U32(SignBit16 - 1)}

InitRepeat == InitWith(RepeatListSize, {TickZero, TickBelowWrap16, TickBelowWrap32},
                       RepeatMaxRegs, RepeatMaxTicks)

NextRepeat ==
    \/ Pass
    \/ \E d \in RepeatGaps : Advance(d)
    \/ \E fn \in LoopFn, delay \in RepeatIntervals : addRepeatedEvent(fn, delay)

SpecRepeat == InitRepeat /\ [][NextRepeat]_vars

(* The loop entered through loopInfinite and left through exit. *)
InitExit == InitWith(ExitListSize, {TickZero}, ExitMaxRegs, ExitMaxTicks)

NextExit ==
    \/ EnterLoopInfinite
    \/ LoopOnce
    \/ DrainClear
    \/ ScanStep
    \/ CallReturn
    \/ EndPass
    \/ LoopInfiniteReturn
    \/ exit
    \/ AppRuns /\ Tick
    \/ \E fn \in LoopFn : AppRuns /\ addImmediateEvent(fn, FALSE)
    \/ \E fn \in LoopFn : AppRuns /\ addPollEvent(fn)
    \/ \E fn \in LoopFn : AppRuns /\ addDelayedEvent(fn, U32(1), FALSE)

SpecExit == InitExit /\ [][NextExit]_vars

\* The loop runs on and every callback returns
FairExit ==
    WF_vars(LoopOnce \/ DrainClear \/ ScanStep \/ CallReturn \/ EndPass
            \/ LoopInfiniteReturn)

SpecExitFair == SpecExit /\ FairExit

(* Interrupt events with disjoint masks, signalled at any point of a pass. *)
SnapshotMasks == {1, 2}

InitSnapshot == InitWith(SnapshotListSize, {TickZero}, SnapshotMaxRegs, 0)

NextSnapshot ==
    \/ Pass
    \/ \E fn \in LoopFn, mask \in SnapshotMasks, repeat \in BOOLEAN :
           addInterruptEvent(fn, mask, repeat, 0)
    \/ \E mask \in SnapshotMasks : signalInterrupt(mask)

SpecSnapshot == InitSnapshot /\ [][NextSnapshot]_vars

(* A ring buffer of every size from 2 on, written and read. *)
InitRing ==
    /\ InitLoop(1, {TickZero}, 0, 0)
    /\ \E size \in 2 .. RingMaxSize :
          \E data \in [0 .. (size - 1) -> Byte] : _receiveBuffer = RingBuffer(size, data)
    /\ fifo = <<>>
    /\ out = NoOut
    /\ InitNoLegacy

NextRing ==
    \/ \E elements \in Elements(RingMaxWrite) : RingWrite(elements)
    \/ \E cnt \in 0 .. RingMaxWrite : RingRead(cnt)

SpecRing == InitRing /\ [][NextRing]_vars

(* A serial line buffer with its receive buffer enabled. *)
InitSerial ==
    /\ InitLoop(1, {TickZero}, 0, 0)
    /\ \E size \in 2 .. SerialMaxSize :
          \E data \in [0 .. (size - 1) -> Byte] : _receiveBuffer = RingBuffer(size, data)
    /\ fifo = <<>>
    /\ out = NoOut
    /\ InitNoLegacy

NextSerial ==
    \/ \E received \in Elements(SerialMaxSize) : synchronize(received)
    \/ \E dataSize \in 1 .. SerialMaxBlock, blockEndMark \in Byte :
           receiveBlock(dataSize, blockEndMark)

SpecSerial == InitSerial /\ [][NextSerial]_vars

(* One-shot entries registered with merge, by the application and by the   *)
(* callbacks while they run.                                               *)
RearmDelays == {U32(0), U32(1)}

InitRearm == InitWith(RearmListSize, {TickZero}, RearmMaxRegs, 0)

NextRearm ==
    \/ Pass
    \/ \E fn \in Fn : addImmediateEvent(fn, TRUE)
    \/ \E fn \in Fn, delay \in RearmDelays : addDelayedEvent(fn, delay, TRUE)

SpecRearm == InitRearm /\ [][NextRearm]_vars

(* Callbacks that register new entries while the pass that invoked them    *)
(* is running.                                                              *)
InitBusy == InitWith(BusyListSize, {TickZero}, BusyMaxRegs, 0)

NextBusy ==
    \/ Pass
    \/ \E fn \in LoopFn : addImmediateEvent(fn, FALSE)
    \/ \E fn \in LoopFn : addPollEvent(fn)

SpecBusy == InitBusy /\ [][NextBusy]_vars

\* A pass that has started runs on and every callback returns
FairBusy == WF_vars(DrainClear \/ ScanStep \/ CallReturn \/ EndPass)

SpecBusyFair == SpecBusy /\ FairBusy

(* The StaticEventLoop with delayed events, at deadlines on both sides of  *)
(* the wrap of the tick counter.                                           *)
LegacyDelays == {U32(0), U32(1), <<SignBit16, 0>>}

\* The state after construction of a StaticEventLoop<listSize>
InitLegacy(listSize, startTicks, maxRegs, maxTicks) ==
    /\ InitLoop(0, startTicks, maxRegs, maxTicks)
    /\ InitNoSerial
    /\ _eventList = [i \in 0 .. (listSize - 1) |-> invalidEvent]
    /\ deadline = NoDeadline
    /\ InitNoShell

InitLegacyTimer == InitLegacy(LegacyTimerListSize, {TickZero, TickBelowWrap32},
                              LegacyTimerMaxRegs, LegacyTimerMaxTicks)

NextLegacyTimer ==
    \/ processEvent
    \/ Tick
    \/ \E fn \in LoopFn, delay \in LegacyDelays : EventLoop_addDelayedEvent(fn, delay, FALSE)

SpecLegacyTimer == InitLegacyTimer /\ [][NextLegacyTimer]_vars

(* A SerialLineShell with a short line buffer: the bytes of the escape     *)
(* sequences, of the keys and of printable characters are received, and    *)
(* the line expansion callback returns lines of every length up to         *)
(* ShellMaxExpansion.                                                      *)
ShellBytes == {KeyTab, KeyReturn, KeyEscape, 67, 68, 91, 97, 127}
ShellModes == {"LineEdit", "HiddenEdit", "Keys"}
ShellGaps == {U32(11)}
ShellLines == UNION {[1 .. k -> {97}] : k \in 0 .. ShellMaxExpansion}
ShellExpansions ==
    [result : {"Failed", "NewPrompt", "Inline"}, line : ShellLines,
     cursorPosition : 0 .. ShellMaxExpansion]

InitShell ==
    /\ InitLoop(0, {TickZero}, 0, ShellMaxTicks)
    /\ InitNoSerial
    /\ _eventList = <<>>
    /\ deadline = NoDeadline
    /\ \E lineBufferSize \in 1 .. ShellMaxLineSize :
          shell = SerialLineShell(lineBufferSize, tick)
    /\ shellPc = "idle"

\* The shell without a line expansion callback
NextShellPlain ==
    \/ pollEventBegin
    \/ \E readByte \in ShellBytes : pollEventReceive(readByte)
    \/ pollEventReturn
    \/ \E inputMode \in ShellModes : setInputMode(inputMode)
    \/ \E d \in ShellGaps : Advance(d)

SpecShellPlain == InitShell /\ [][NextShellPlain]_vars

NextShell ==
    \/ NextShellPlain
    \/ \E lineExpansionFn \in BOOLEAN : setLineExpansionFn(lineExpansionFn)
    \/ \E expansion \in ShellExpansions : lineExpansionReturn(expansion)

SpecShell == InitShell /\ [][NextShell]_vars

(* A Deadline, created and restarted with short and long timeouts and     *)
(* looked at after short and long times.                                   *)
DeadlineTimeouts == {U32(1), U32(2), <<4096, 0>>, <<SignBit16 - 1, Word16 - 1>>}
DeadlineGaps == {U32(1), <<4096, 0>>, <<SignBit16 - 1, Word16 - 1>>}

InitDeadline ==
    /\ InitLoop(0, {TickZero, TickBelowWrap32}, 0, DeadlineMaxTicks)
    /\ InitNoSerial
    /\ _eventList = <<>>
    /\ InitNoShell
    /\ \E timeout \in DeadlineTimeouts : deadline = Deadline(tick, timeout)

NextDeadline ==
    \/ \E timeout \in DeadlineTimeouts : restart(timeout)
    \/ \E d \in DeadlineGaps : Advance(d)

SpecDeadline == InitDeadline /\ [][NextDeadline]_vars

(* Registrations of every kind with and without merge, made with an       *)
(* event::Loop or with a StaticEventLoop, whichever the application has    *)
(* constructed. The application registers its Immediate entries with       *)
(* merge=true, and its interrupt events with the first mask and            *)
(* merge=false or with the second mask and merge=true.                     *)
KindsDelays == {U32(1), U32(2)}
KindsMasks == {1, 2}

\* The application has constructed the event::Loop
UsesLoop == entryListSize > 0

\* The application has constructed the StaticEventLoop
UsesEventLoop == eventListSize > 0

InitKinds ==
    \/ InitWith(KindsListSize, {TickZero}, KindsMaxRegs, 0)
    \/ InitLegacy(KindsListSize, {TickZero}, KindsMaxRegs, 0)

NextKinds ==
    \/ \E fn \in Fn : UsesLoop /\ addImmediateEvent(fn, TRUE)
    \/ \E fn \in Fn : UsesLoop /\ addPollEvent(fn)
    \/ \E fn \in Fn, delay \in KindsDelays, merge \in BOOLEAN :
           UsesLoop /\ addDelayedEvent(fn, delay, merge)
    \/ \E fn \in Fn : UsesLoop /\ addRepeatedEvent(fn, U32(1))
    \/ \E fn \in Fn, merge \in BOOLEAN :
           UsesEventLoop /\ EventLoop_addImmediateEvent(fn, merge)
    \/ \E fn \in Fn : UsesEventLoop /\ EventLoop_addPollEvent(fn)
    \/ \E fn \in Fn, delay \in KindsDelays, merge \in BOOLEAN :
           UsesEventLoop /\ EventLoop_addDelayedEvent(fn, delay, merge)
    \/ \E fn \in Fn : UsesEventLoop /\ EventLoop_addInterruptEvent(fn, 1, FALSE)
    \/ \E fn \in Fn : UsesEventLoop /\ EventLoop_addInterruptEvent(fn, 2, TRUE)

SpecKinds == InitKinds /\ [][NextKinds]_vars

(***************************************************************************)
(* Vocabulary of the statements                                            *)
(***************************************************************************)
\* The positions of the storage in use
Stored == 0 .. (_count - 1)

\* The registration numbers of the entries invoked so far in the running pass
CalledIds == {calls[k].reg.id : k \in 1 .. Len(calls)}

\* The registration numbers of the entries in the storage
StoredIds == {_entryList[i].reg.id : i \in Stored}

\* A pass is running and has taken its snapshots
InPass == pc \in {"scan", "call"}

\* The kinds of entries, by the flags the registration calls give them
IsDelayed(e) == e.flags = FlagValid
IsRepeated(e) == e.flags = FlagValid + FlagRepeat
IsOnInterrupt(e) == isSet(e.flags, FlagValid) /\ isSet(e.flags, FlagOnInterrupt)
IsRepeatInterrupt(e) == e.flags = FlagValid + FlagOnInterrupt + FlagRepeat

\* The mask an interrupt entry was registered with
RegMask(e) == e.reg.arg[2]

(***************************************************************************)
(* C1: an entry registered with addInterruptEvent(fn, mask, repeat=true)   *)
(* stays in the store with its mask unchanged after every firing, and is   *)
(* invoked in every pass whose drained flag snapshot intersects the mask.  *)
(* Stated as: every repeat interrupt entry in the store holds the mask it  *)
(* was registered with, every one invoked in the running pass is still in  *)
(* the store, and every one the scan has passed whose registered mask      *)
(* intersects the snapshot has been invoked.                               *)
(***************************************************************************)
C1_RepeatInterruptKeepsMask ==
    /\ \A i \in Stored :
          IsRepeatInterrupt(_entryList[i]) => _entryList[i].data.w0 = RegMask(_entryList[i])
    /\ \A k \in 1 .. Len(calls) :
          IsRepeatInterrupt(calls[k]) => calls[k].reg.id \in StoredIds
    /\ InPass =>
          \A i \in 0 .. (position - 1) :
              (/\ i < _count
               /\ IsRepeatInterrupt(_entryList[i])
               /\ isOneSet(BitAnd(RegMask(_entryList[i]), interruptFlags)))
              => _entryList[i].reg.id \in CalledIds

\* The interval a Repeated entry was registered with, in 16 bits
RegInterval(e) == e.reg.arg[2]

\* The delay a Delayed entry was registered with
RegDelay(e) == e.reg.arg

\* Ticks (mod 2^32) from the registration of an entry to the snapshot of
\* the running pass
SinceRegistered(e) == DurationMinus(currentTime, e.reg.t)

\* The step of a pass that finds the entry at position ready and calls it
Fires == pc = "scan" /\ pc' = "call"

(***************************************************************************)
(* C2 as written: when a Repeated entry with interval I fires, its next    *)
(* nominal deadline is the previous nominal deadline plus I (mod 2^16),    *)
(* whatever the tick at which the pass ran.                                *)
(***************************************************************************)
C2_DeadlineFromPreviousDeadline ==
    [][(Fires /\ IsRepeated(_entryList[position]))
        => _entryList'[position].data.w0
             = Add16(_entryList[position].data.w0, RegInterval(_entryList[position]))]_vars

(***************************************************************************)
(* C2 amended: when a Repeated entry with interval I fires, its next       *)
(* nominal deadline is the tick snapshot of the firing pass plus I         *)
(* (mod 2^16); it is the previous nominal deadline plus I exactly when     *)
(* the pass ran at the tick of the previous deadline.                      *)
(***************************************************************************)
C2_DeadlineFromPassSnapshot ==
    [][(Fires /\ IsRepeated(_entryList[position]))
        => LET old == _entryList[position]
               new == _entryList'[position]
           IN  /\ new.reg = old.reg
               /\ new.data.w0 = Add16(Ticks16(currentTime), RegInterval(old))
               /\ (new.data.w0 = Add16(old.data.w0, RegInterval(old)))
                     <=> (Ticks16(currentTime) = old.data.w0)]_vars

\* A Repeated entry has fired in a pass that ran after its deadline
C2_Witness ==
    /\ pc = "call"
    /\ \E k \in 1 .. Len(calls) :
          /\ IsRepeated(calls[k])
          /\ calls[k].data.w0 # Ticks16(currentTime)
          /\ \E i \in Stored :
                /\ _entryList[i].reg = calls[k].reg
                /\ _entryList[i].data.w0 # Add16(calls[k].data.w0, RegInterval(calls[k]))

(***************************************************************************)
(* C3: when the same call is added again with merge=true before it has     *)
(* fired, the last added registration is the one executed: the pending     *)
(* entry of that callback has the deadline of the last addDelayedEvent     *)
(* call (its now + delay).                                                  *)
(***************************************************************************)
C3_LastRegistrationIsExecuted ==
    [][\A fn \in Fn, delay \in MergeDelays :
          (addDelayedEvent(fn, delay, TRUE) /\ _count < entryListSize)
          => \E i \in 0 .. (_count' - 1) :
                /\ _entryList'[i].call = fn
                /\ IsDelayed(_entryList'[i])
                /\ delayedExpireTime(_entryList'[i].data) = DurationPlus(tick, delay)]_vars

(***************************************************************************)
(* C4: no bit signalled from interrupt context is lost. The bits signalled *)
(* since the last completed drain are exactly the bits of the flag word,   *)
(* the copy a drain has read holds all of them, and the snapshot a drain   *)
(* returns is exactly the bits signalled since the drain before it.        *)
(***************************************************************************)
C4_NoSignalLost ==
    /\ [](IF pc = "drain" THEN flagsCopy = owed ELSE _interruptFlags = owed)
    /\ [][(pc = "drain" /\ pc' = "scan")
           => (interruptFlags' = owed /\ _interruptFlags' = 0 /\ owed' = 0)]_vars

\* A callback of a pass that drained some bit is running, and a bit that
\* was not in the snapshot has been signalled since
C4_Witness ==
    /\ pc = "call"
    /\ interruptFlags # 0
    /\ _interruptFlags # 0
    /\ BitAnd(_interruptFlags, interruptFlags) = 0

(***************************************************************************)
(* C5: a Delayed entry registered at tick t with delay d is not invoked in *)
(* a pass with (now - t) mod 2^32 < d, and is invoked once and removed in  *)
(* the first pass with (now - t) mod 2^32 >= d that runs less than 2^31    *)
(* ms after the deadline. Stated for the passes that start after the       *)
(* registration: every Delayed entry invoked in the running pass has       *)
(* (now - t) >= d, is invoked once and is out of the store; every Delayed  *)
(* entry the scan has passed and left in the store has (now - t) < d, or   *)
(* the pass runs 2^31 ms or more after its deadline.                       *)
(***************************************************************************)
C5_DelayedFiresAtDeadline ==
    InPass =>
        /\ \A k \in 1 .. Len(calls) :
              IsDelayed(calls[k]) =>
                 /\ ~Less32(SinceRegistered(calls[k]), RegDelay(calls[k]))
                 /\ calls[k].reg.id \notin StoredIds
                 /\ \A l \in 1 .. Len(calls) : calls[l].reg.id = calls[k].reg.id => l = k
        /\ \A i \in 0 .. (position - 1) :
              (i < _count /\ IsDelayed(_entryList[i])) =>
                 \/ Less32(SinceRegistered(_entryList[i]), RegDelay(_entryList[i]))
                 \/ ~Less32(DurationMinus(SinceRegistered(_entryList[i]), RegDelay(_entryList[i])),
                            <<SignBit16, 0>>)

\* A Delayed entry whose deadline now + delay overflowed the 32-bit counter
\* has been invoked
C5_Witness ==
    /\ pc = "call"
    /\ \E k \in 1 .. Len(calls) :
          /\ IsDelayed(calls[k])
          /\ RegDelay(calls[k]) # <<0, 0>>
          /\ Less32(delayedExpireTime(calls[k].data), calls[k].reg.t)

(***************************************************************************)
(* C6: after signalInterrupt calls containing bit X, the pass invokes      *)
(* every entry whose mask contains X exactly once, and a pass whose        *)
(* snapshot is empty invokes no interrupt entry. Stated as: every          *)
(* interrupt entry the scan has passed whose registered mask intersects    *)
(* the snapshot has been invoked, no entry is invoked twice in a pass, and *)
(* with an empty snapshot no interrupt entry is invoked.                   *)
(***************************************************************************)
C6_SignalledEntriesFireOnce ==
    InPass =>
        /\ \A i \in 0 .. (position - 1) :
              (/\ i < _count
               /\ IsOnInterrupt(_entryList[i])
               /\ isOneSet(BitAnd(RegMask(_entryList[i]), interruptFlags)))
              => _entryList[i].reg.id \in CalledIds
        /\ \A k, l \in 1 .. Len(calls) : calls[k].reg.id = calls[l].reg.id => k = l
        /\ interruptFlags = 0 => \A k \in 1 .. Len(calls) : ~IsOnInterrupt(calls[k])

(***************************************************************************)
(* C7: an entry registered by a callback while a pass is running is stored *)
(* but not invoked in that pass: every entry invoked in the running pass   *)
(* was registered before the pass started, and the entries registered      *)
(* during the pass lie at or beyond the end of the scan; an Immediate      *)
(* entry is never passed over by a scan, so the next pass invokes it.      *)
(***************************************************************************)
C7_AddedDuringPassIsDeferred ==
    InPass =>
        /\ \A k \in 1 .. Len(calls) : calls[k].reg.id < passStartId
        /\ \A i \in Stored : _entryList[i].reg.id >= passStartId => i >= count
        /\ \A i \in 0 .. (position - 1) :
              (i < _count /\ isSet(_entryList[i].flags, FlagImmediate))
              => _entryList[i].reg.id \in CalledIds

\* A pass has finished its scan; one of its callbacks registered an
\* Immediate entry of its own callback, which is stored and was not invoked
C7_Witness ==
    /\ pc = "scan"
    /\ position >= count
    /\ \E i \in Stored, k \in 1 .. Len(calls) :
          /\ i >= count
          /\ isSet(_entryList[i].flags, FlagImmediate)
          /\ _entryList[i].call = calls[k].call
          /\ _entryList[i].reg.id >= passStartId
          /\ _entryList[i].reg.id \notin CalledIds

\* An entry of the callback fn with the kind flags is pending
Pending(fn, flags) ==
    \E i \in Stored : _entryList[i].call = fn /\ _entryList[i].flags = flags

\* What C8 says of a registration of fn with the kind flags
MergeRule(fn, flags, merge) ==
    /\ (merge /\ Pending(fn, flags)) => UNCHANGED <<_count, _entryList>>
    /\ (~merge /\ _count < entryListSize) =>
          /\ _count' = _count + 1
          /\ _entryList'[_count].call = fn
          /\ _entryList'[_count].flags = flags
          /\ \A i \in Stored : _entryList'[i] = _entryList[i]

C9_FullStoreDropsRegistration ==
    [][(lastOp' # NoOp /\ _count = entryListSize)
        => (/\ UNCHANGED <<_count, _entryList, pc, position, count, call, calls>>
            /\ lastOp' = "full")]_vars

\* A registration has just been dropped by a full store
C9_Witness == lastOp = "full" /\ _count = entryListSize

(***************************************************************************)
(* C10: the store keeps the entries in registration order, whatever is     *)
(* removed, and the callbacks of a pass are invoked in that order.         *)
(***************************************************************************)
C10_CallsInRegistrationOrder ==
    /\ \A i, j \in Stored : i < j => _entryList[i].reg.id < _entryList[j].reg.id
    /\ \A k, l \in 1 .. Len(calls) : k < l => calls[k].reg.id < calls[l].reg.id

\* Two entries were invoked in one pass, the first of them was removed, and
\* a later entry is left in the store
C10_Witness ==
    /\ pc = "call"
    /\ Len(calls) >= 2
    /\ isRemovedAfterCall(calls[1])
    /\ _count >= 1

\* Ticks (mod 2^32) from the registration of an entry to the tick counter
Elapsed(e) == DurationMinus(tick, e.reg.t)

\* A Repeated entry holds the deadline its registration armed (or one equal
\* to it in 16 bits)
ArmedAtRegistration(e) ==
    IsRepeated(e) /\ e.data.w0 = Add16(Ticks16(e.reg.t), RegInterval(e))

(***************************************************************************)
(* C11: for a Repeated entry armed at tick t with interval I in 1..32767,  *)
(* isReady(now) is true exactly when now - t >= I, for every now with      *)
(* 0 <= now - t <= I + 32767, also across the wrap of the low 16 bits of   *)
(* the tick counter.                                                       *)
(***************************************************************************)
C11_RepeatedReadyFromInterval ==
    \A i \in Stored :
        LET e == _entryList[i]
        IN  (/\ ArmedAtRegistration(e)
             /\ ~Less32(DurationPlus(e.reg.arg, U32(SignBit16 - 1)), Elapsed(e)))
            => (isReady(e, tick, 0) <=> ~Less32(Elapsed(e), e.reg.arg))

\* A Repeated entry with the largest interval is ready at the far end of the
\* range, I + 32767 ticks after it was armed, with the low 16 bits of the
\* tick counter wrapped in between
C11_Witness ==
    \E i \in Stored :
        LET e == _entryList[i]
        IN  /\ ArmedAtRegistration(e)
            /\ e.reg.arg = U32(SignBit16 - 1)
            /\ Elapsed(e) = U32(Word16 - 2)
            /\ Ticks16(tick) < Ticks16(e.reg.t)
            /\ isReady(e, tick, 0)

(***************************************************************************)
(* C12: when a Repeated entry fires in a pass with tick snapshot now, its   *)
(* next deadline is set to (now16 + intervalMs) mod 2^16 in the step that  *)
(* hands control to its callback, from the snapshot of the pass, and the   *)
(* return of the callback changes no entry; the entry is invoked at most   *)
(* once per pass and stays in the store, so intervals missed in a long gap *)
(* are not caught up.                                                      *)
(***************************************************************************)
C12_RepeatedRearmedBeforeCall ==
    /\ [](InPass =>
            \A k \in 1 .. Len(calls) :
                IsRepeated(calls[k]) =>
                   /\ calls[k].reg.id \in StoredIds
                   /\ \A l \in 1 .. Len(calls) :
                         calls[l].reg.id = calls[k].reg.id => l = k)
    /\ [][(Fires /\ IsRepeated(_entryList[position]))
           => (/\ call' = _entryList[position].call
               /\ _count' = _count
               /\ _entryList'[position].data.w1 = _entryList[position].data.w1
               /\ _entryList'[position].data.w0
                     = Add16(Ticks16(currentTime), _entryList[position].data.w1))]_vars
    /\ [][(pc = "call" /\ pc' = "scan") => UNCHANGED <<_entryList, _count>>]_vars

\* The callback of a Repeated entry is running in a pass that started two
\* or more intervals after the entry was armed, the tick counter has moved
\* on since the snapshot, and the entry holds the deadline snapshot + I
C12_Witness ==
    /\ pc = "call"
    /\ tick # currentTime
    /\ \E k \in 1 .. Len(calls), i \in Stored :
          /\ ArmedAtRegistration(calls[k])
          /\ ~Less32(SinceRegistered(calls[k]),
                     DurationPlus(calls[k].reg.arg, calls[k].reg.arg))
          /\ _entryList[i].reg = calls[k].reg
          /\ _entryList[i].data.w0 = Add16(Ticks16(currentTime), RegInterval(calls[k]))

\* The entries of addImmediateEvent and of addPollEvent, by their flags
IsImmediateOnce(e) == e.flags = FlagValid + FlagImmediate
IsPoll(e) == e.flags = FlagValid + FlagImmediate + FlagRepeat

\* The step in which processEvents returns
Returns == pc = "scan" /\ pc' = "idle"

(***************************************************************************)
(* C13: an entry stored by addImmediateEvent is invoked exactly once, in   *)
(* the first pass that starts after its registration, and removed by that  *)
(* pass. Stated as: an entry of addImmediateEvent invoked in the running   *)
(* pass is invoked once in it and is out of the store; such an entry       *)
(* leaves the store only in the step that invokes it; and when a pass      *)
(* returns, no such entry registered before the pass started is left.      *)
(***************************************************************************)
C13_ImmediateFiresOnceInNextPass ==
    /\ [](\A k \in 1 .. Len(calls) :
             IsImmediateOnce(calls[k]) =>
                /\ calls[k].reg.id \notin StoredIds
                /\ \A l \in 1 .. Len(calls) : calls[l].reg.id = calls[k].reg.id => l = k)
    /\ [][\A i \in Stored :
             (/\ IsImmediateOnce(_entryList[i])
              /\ \A j \in 0 .. (_count' - 1) : _entryList'[j].reg.id # _entryList[i].reg.id)
             => (Fires /\ i = position /\ call' = _entryList[i].call)]_vars
    /\ [][Returns =>
             \A i \in Stored :
                 IsImmediateOnce(_entryList[i]) => _entryList[i].reg.id >= passStartId]_vars

\* The callback of an entry of addImmediateEvent registered before the pass
\* is running and the entry is out of the store, which holds other entries
C13_Witness ==
    /\ pc = "call"
    /\ _count >= 1
    /\ \E k \in 1 .. Len(calls) :
          /\ IsImmediateOnce(calls[k])
          /\ k = Len(calls)
          /\ calls[k].reg.id < passStartId
          /\ calls[k].reg.id \notin StoredIds

(***************************************************************************)
(* C14: an entry of addPollEvent is invoked exactly once in every pass     *)
(* that starts after its registration and is never removed, whatever else  *)
(* is added or removed. Stated as: no step takes a poll entry out of the   *)
(* store; no poll entry is invoked twice in a pass; every poll entry the   *)
(* scan has passed has been invoked; and when a pass returns, every poll   *)
(* entry registered before the pass started has been invoked in it.        *)
(***************************************************************************)
C14_PollFiresOncePerPass ==
    /\ [](InPass =>
            /\ \A k, l \in 1 .. Len(calls) :
                  (IsPoll(calls[k]) /\ calls[l].reg.id = calls[k].reg.id) => l = k
            /\ \A i \in 0 .. (position - 1) :
                  (i < _count /\ IsPoll(_entryList[i])) => _entryList[i].reg.id \in CalledIds)
    /\ [][\A i \in Stored :
             IsPoll(_entryList[i]) =>
                \E j \in 0 .. (_count' - 1) : _entryList'[j] = _entryList[i]]_vars
    /\ [][Returns =>
             \A i \in Stored :
                 (IsPoll(_entryList[i]) /\ _entryList[i].reg.id < passStartId)
                 => _entryList[i].reg.id \in CalledIds]_vars

\* The callback of a poll entry is running in a pass that has removed an
\* entry stored in front of it, and another entry was added meanwhile
C14_Witness ==
    /\ pc = "call"
    /\ \E k \in 2 .. Len(calls) :
          /\ IsPoll(calls[k])
          /\ isRemovedAfterCall(calls[1])
          /\ calls[k].reg.id \in StoredIds
          /\ \E i \in Stored : _entryList[i].reg.id >= passStartId

\* a is a subset of the bits of b
BitsWithin(a, b) == BitAnd(a, b) = a

(***************************************************************************)
(* C15: interrupt flags signalled while the callbacks of a pass are        *)
(* running are not seen by the entries evaluated later in that pass, stay  *)
(* pending in the flag word and are in the snapshot of the next pass.      *)
(* Stated as: the snapshot does not change while the pass runs; every      *)
(* interrupt entry invoked in the pass had a mask that intersects the      *)
(* snapshot; outside the drain no step clears a bit of the flag word; and  *)
(* the snapshot a drain hands to the pass is the flag word as it stood.    *)
(***************************************************************************)
C15_SnapshotFixedForPass ==
    /\ [][(InPass /\ InPass') => interruptFlags' = interruptFlags]_vars
    /\ [](InPass =>
            \A k \in 1 .. Len(calls) :
                IsOnInterrupt(calls[k])
                => isOneSet(BitAnd(calls[k].data.w0, interruptFlags)))
    /\ [][pc # "drain" => BitsWithin(_interruptFlags, _interruptFlags')]_vars
    /\ [][(pc = "drain" /\ pc' = "scan") => interruptFlags' = _interruptFlags]_vars

\* After a callback of the pass ran, the scan has passed an interrupt entry
\* whose mask intersects the bits signalled since the snapshot and not the
\* snapshot, and has not invoked it
C15_Witness ==
    /\ pc = "scan"
    /\ Len(calls) >= 1
    /\ \E i \in Stored :
          /\ i < position
          /\ IsOnInterrupt(_entryList[i])
          /\ isOneSet(BitAnd(_entryList[i].data.w0, _interruptFlags))
          /\ ~isOneSet(BitAnd(_entryList[i].data.w0, interruptFlags))
          /\ _entryList[i].reg.id \notin CalledIds

(***************************************************************************)
(* C16: when exit() is called by a callback during a pass, the remaining   *)
(* ready entries of that pass are still invoked, and loopInfinite()        *)
(* returns after that pass without starting another one; loopInfinite()    *)
(* never returns while exit() has not been called. Stated as: the call of  *)
(* exit changes nothing of the running pass; a pass invokes every ready    *)
(* entry whether or not exit was called; no pass starts in loopInfinite    *)
(* once exit was called; loopInfinite returns only between two passes and  *)
(* with exit called; and once exit was called, loopInfinite returns.       *)
(***************************************************************************)
C16_ExitEndsLoopAfterPass ==
    /\ [][(pc = "call" /\ ~_exitRequested /\ _exitRequested')
           => UNCHANGED <<pc, position, count, call, calls, _count, _entryList>>]_vars
    /\ [](InPass =>
            \A i \in 0 .. (position - 1) :
                (i < _count /\ isReady(_entryList[i], currentTime, interruptFlags))
                => _entryList[i].reg.id \in CalledIds)
    /\ [][Returns =>
             \A i \in Stored :
                 (/\ _entryList[i].reg.id < passStartId
                  /\ isReady(_entryList[i], currentTime, interruptFlags))
                 => _entryList[i].reg.id \in CalledIds]_vars
    /\ [][(mainPc = "loopInfinite" /\ _exitRequested) => ~(pc = "idle" /\ pc' = "drain")]_vars
    /\ [][(mainPc = "loopInfinite" /\ mainPc' = "returned")
           => (_exitRequested /\ pc = "idle")]_vars
    /\ ((mainPc = "loopInfinite" /\ _exitRequested) ~> (mainPc = "returned"))

\* A callback of a pass of loopInfinite called exit, and the pass has
\* invoked another entry since
C16_Witness ==
    /\ mainPc = "loopInfinite"
    /\ pc = "call"
    /\ _exitRequested
    /\ exitCalledAt >= 1
    /\ Len(calls) > exitCalledAt

(***************************************************************************)
(* C17: after any sequence of registrations, removals and passes the store *)
(* has 0 <= count <= N and the slots [0, count) all hold valid entries     *)
(* (Valid flag set), with no gap.                                          *)
(***************************************************************************)
C17_StoreIsContiguous ==
    /\ _count \in 0 .. entryListSize
    /\ \A i \in Stored :
          /\ isSet(_entryList[i].flags, FlagValid)
          /\ _entryList[i].call # NullFn
          /\ entryAt(_entryList, _count, i) = _entryList[i]

\* A pass has removed the entry it invoked first and an entry registered
\* after that one has moved down to the first slot
C17_Witness ==
    /\ pc = "call"
    /\ _count >= 1
    /\ isRemovedAfterCall(calls[1])
    /\ _entryList[0].reg.id > calls[1].reg.id
    /\ _entryList[0].reg.id < passStartId

\* Positions at and beyond the count, up to one beyond the array; tick values
\* and flag snapshots an out-of-range entry is asked about
BeyondCount == _count .. (entryListSize + 1)
SampleTicks == {TickZero, tick, TickBelowWrap16, TickBelowWrap32, <<SignBit16, 0>>}
SampleFlags == {0, 1, 2, 3, Word16 - 1}

(***************************************************************************)
(* C18: out-of-range store access is harmless. entryAt(i) with i >= count  *)
(* returns an entry whose Valid flag is unset, which is not ready for any  *)
(* tick and any flag snapshot and cannot merge with any registered entry,  *)
(* and removeEntryAt(i) with i >= count leaves the count and all entries   *)
(* unchanged.                                                              *)
(***************************************************************************)
C18_OutOfRangeAccessIsHarmless ==
    \A pos \in BeyondCount :
        LET e == entryAt(_entryList, _count, pos)
        IN  /\ ~isSet(e.flags, FlagValid)
            /\ \A now \in SampleTicks, intFlags \in SampleFlags : ~isReady(e, now, intFlags)
            /\ \A i \in Stored : ~canMerge(e, _entryList[i]) /\ ~canMerge(_entryList[i], e)
            /\ removeEntryAt(_entryList, _count, pos) = <<_entryList, _count>>

\* The slot just beyond the count still holds the copy of a valid entry
\* that a removal left there, and the entry in front of it is stored
C18_Witness ==
    /\ _count >= 1
    /\ _count < entryListSize
    /\ isSet(_entryList[_count].flags, FlagValid)
    /\ isReady(_entryList[_count], tick, _interruptFlags)

\* The element equal to the end mark is in the sequence
HasEndMark(data, endMark) == \E k \in 1 .. Len(data) : data[k] = endMark

\* The sequence ends with the end mark
EndsWithEndMark(data, endMark) == Len(data) > 0 /\ data[Len(data)] = endMark

(***************************************************************************)
(* C19: with the receive buffer enabled, SerialLineBuffer::receiveBlock    *)
(* returns Success exactly when the block end mark was read (and copied as *)
(* the last byte), and Partial when it returns without having read an end  *)
(* mark (buffer exhausted or data block filled).                           *)
(***************************************************************************)
C19_SuccessIffEndMarkRead ==
    out.op = "receiveBlock" =>
        /\ out.status = "Success" <=> EndsWithEndMark(out.data, out.blockEndMark)
        /\ out.status = "Partial" <=> ~HasEndMark(out.data, out.blockEndMark)

\* The elements the buffer holds, from the read position on
Contents(self) ==
    [k \in 1 .. self._count |-> self._data[(self._readPos + k - 1) % self._size]]

(***************************************************************************)
(* C20: for a RingBuffer of size S >= 2, after any sequence of write and   *)
(* read calls getCount() is the number of elements written and neither     *)
(* read nor overwritten, at most S; the buffer holds those elements in the *)
(* order they were written, so that the oldest are the ones overwritten    *)
(* and a write of more than S elements keeps its last S; and read returns  *)
(* the oldest of them in that order.                                       *)
(***************************************************************************)
C20_RingBufferIsFifo ==
    /\ _receiveBuffer._count = Len(fifo)
    /\ _receiveBuffer._count <= _receiveBuffer._size
    /\ _receiveBuffer._readPos < _receiveBuffer._size
    /\ _receiveBuffer._writePos < _receiveBuffer._size
    /\ Contents(_receiveBuffer) = fifo
    /\ out.op = "read" => out.data = out.expect

\* One write of more than S elements has just overwritten pending elements
\* of a buffer whose read position was not at the start of the array
C20_Witness ==
    /\ out.op = "write"
    /\ out.n > _receiveBuffer._size
    /\ out.lost > out.n - _receiveBuffer._size
    /\ _receiveBuffer._readPos # 0
    /\ _receiveBuffer._count = _receiveBuffer._size

\* The Entry that event::Loop stores for a delayed event with the deadline
\* of a delayed Event of the StaticEventLoop
EntryOf(event) ==
    [call |-> event.call, data |-> DataDelayed(event.data), flags |-> FlagValid,
     reg |-> event.reg]

\* C21: a stored Delayed event of the StaticEventLoop is ready at a tick
\* exactly when the event::Entry with the same deadline is ready at that
\* tick, the tick of the deadline included.
C21_LegacyDelayedReadyAsEntry ==
    \A i \in Stored :
        _eventList[i].type = "Delayed" =>
            (Event_isReady(_eventList[i], tick, 0)
                <=> isReady(EntryOf(_eventList[i]), tick, 0))

\* C21, the ticks other than the deadline: there the two agree
C21_AgreeOffDeadline ==
    \A i \in Stored :
        (_eventList[i].type = "Delayed" /\ _eventList[i].data # tick) =>
            (Event_isReady(_eventList[i], tick, 0)
                <=> isReady(EntryOf(_eventList[i]), tick, 0))

\* The entry was in the store when the running pass started
AtPassStart(e) == e.reg.id < passStartId

\* The entry is ready for the snapshots of the running pass
ReadyInPass(e) == isReady(e, currentTime, interruptFlags)

StartCount ==
    Cardinality({i \in Stored : AtPassStart(_entryList[i])})
        + Cardinality({k \in 1 .. Len(calls) : calls[k].reg.id \notin StoredIds})

(***************************************************************************)
(* C23: a pass over a store that holds c entries when it starts ends after *)
(* at most c callback invocations, even when every callback registers new  *)
(* entries. Stated as: the invocations made so far, alone and together     *)
(* with the entries the scan has still to examine, never exceed c, every   *)
(* step of the scan takes one from the entries still to examine, and a     *)
(* pass that has started returns.                                          *)
(***************************************************************************)
C23_PassEndsWithinStartCount ==
    /\ [](InPass =>
            /\ Len(calls) <= StartCount
            /\ count - position >= 0
            /\ Len(calls) + (count - position) <= StartCount)
    /\ [][(pc = "scan" /\ pc' # "idle")
           => (count' - position') = (count - position) - 1]_vars
    /\ (pc = "drain") ~> (pc = "idle")

\* The scan of a pass that started with two entries has reached its end
\* after two invocations, each of which registered a new entry
C23_Witness ==
    /\ pc = "scan"
    /\ ~WhileCondition
    /\ StartCount = 2
    /\ Len(calls) = 2
    /\ Cardinality({i \in Stored : ~AtPassStart(_entryList[i])}) = 2

\* What C24 says of a registration with merge=true that the running
\* callback fn makes of itself, with the kind flags of the entry invoked
RearmRule(fn, flags) ==
    /\ (lastOp' = "stored") <=> (_count < entryListSize /\ ~Pending(fn, flags))
    /\ (lastOp' = "stored") =>
          /\ _count' = _count + 1
          /\ _entryList'[_count].call = fn
          /\ _entryList'[_count].flags = flags
    /\ (/\ StartCount = entryListSize
        /\ Len(calls) = 1
        /\ \A i \in Stored : AtPassStart(_entryList[i]))
       => lastOp' # "full"

(***************************************************************************)
(* C24: a one-shot entry is removed before its callback is invoked, so a   *)
(* callback that registers itself again is never rejected because of its   *)
(* own stale copy. Stated as: the step that invokes a one-shot entry       *)
(* leaves a free slot and no copy of the entry in the store; a             *)
(* registration with merge=true that the running callback makes of itself  *)
(* is stored exactly when the store has a free slot and no other entry of  *)
(* that callback and kind is pending; and the first such registration of a *)
(* pass that started with a full store is not dropped for lack of space.   *)
(***************************************************************************)
C24_RearmNotRejected ==
    [][/\ (Fires /\ isRemovedAfterCall(_entryList[position])) =>
             /\ _count' < entryListSize
             /\ \A j \in 0 .. (_count' - 1) :
                   _entryList'[j].reg.id # _entryList[position].reg.id
       /\ \A fn \in Fn :
             (pc = "call" /\ call = fn) =>
                /\ (IsImmediateOnce(calls[Len(calls)]) /\ addImmediateEvent(fn, TRUE))
                      => RearmRule(fn, calls[Len(calls)].flags)
                /\ \A delay \in RearmDelays :
                      (IsDelayed(calls[Len(calls)]) /\ addDelayedEvent(fn, delay, TRUE))
                      => RearmRule(fn, calls[Len(calls)].flags)]_vars

\* In a pass that started with a full store the first callback has
\* registered itself again with merge=true; the new entry is stored in the
\* slot the removal freed, next to a pending entry of the same callback
\* and another kind
C24_Witness ==
    /\ pc = "call"
    /\ lastOp = "stored"
    /\ Len(calls) = 1
    /\ StartCount = entryListSize
    /\ _count = entryListSize
    /\ _entryList[_count - 1].call = call
    /\ _entryList[_count - 1].flags = calls[1].flags
    /\ ~AtPassStart(_entryList[_count - 1])
    /\ \E i \in Stored : _entryList[i].call = call /\ _entryList[i].flags # calls[1].flags

\* What a step may do to the stored entry old, found as new after the
\* step: callback, flags and registration stay, and the payload changes
\* only when the step invokes old, old is of one of the kinds and the
\* write is to the 16 bits of the expiry time
WritesOnlyExpiry(old, new, i, kinds) ==
    /\ new.call = old.call
    /\ new.flags = old.flags
    /\ (new.data # old.data) =>
          /\ Fires
          /\ i = position
          /\ ReadyInPass(old)
          /\ old.flags \in kinds
          /\ new.data.w1 = old.data.w1

(***************************************************************************)
(* C25: a pass never changes the callback or the flags of a stored entry   *)
(* and leaves every entry that is not ready completely unchanged, payload  *)
(* included; the only payload a pass writes is the expiry time of a        *)
(* Repeated timer entry that fired.                                        *)
(***************************************************************************)
C25_PassWritesOnlyRepeatedExpiry ==
    [][\A i \in Stored : \A j \in 0 .. (_count' - 1) :
          _entryList'[j].reg = _entryList[i].reg
          => WritesOnlyExpiry(_entryList[i], _entryList'[j], i, {FlagValid + FlagRepeat})]_vars

\* C25 with the repeat interrupt entries that fired left out: the rest of
\* the statement holds for every kind of entry
C25_ExceptRepeatInterrupt ==
    [][\A i \in Stored : \A j \in 0 .. (_count' - 1) :
          _entryList'[j].reg = _entryList[i].reg
          => WritesOnlyExpiry(_entryList[i], _entryList'[j], i,
                              {FlagValid + FlagRepeat,
                               FlagValid + FlagOnInterrupt + FlagRepeat})]_vars

\* An event of the callback fn and the type is pending in the StaticEventLoop
PendingEvent(fn, type) ==
    \E i \in Stored : _eventList[i].call = fn /\ _eventList[i].type = type

\* Two entries of event::Loop are of the same kind
SameKind(a, b) ==
    \/ IsImmediateOnce(a) /\ IsImmediateOnce(b)
    \/ IsPoll(a) /\ IsPoll(b)
    \/ IsDelayed(a) /\ IsDelayed(b)
    \/ IsRepeated(a) /\ IsRepeated(b)

\* What C26 says of a registration into a store with a free slot: it is
\* suppressed exactly when it asks for merge and an entry of its callback
\* and kind is pending, and stored otherwise
SuppressedIff(merge, pending) ==
    /\ (lastOp' = "merged") <=> (merge /\ pending)
    /\ (lastOp' = "stored") <=> ~(merge /\ pending)

(***************************************************************************)
(* C26: canMerge(a, b) is true exactly when a and b have the same callback *)
(* and the same kind, whatever their payloads. Stated as: two pending      *)
(* entries can merge exactly when callback and kind agree; a registration  *)
(* into a store with a free slot is suppressed exactly when it is made     *)
(* with merge=true and an entry with its callback and its kind is pending, *)
(* whatever the deadline or (addInterruptEvent of the StaticEventLoop) the *)
(* mask of that entry, and whatever entries of the same callback and       *)
(* another kind are pending.                                               *)
(***************************************************************************)
C26_MergeByCallbackAndKind ==
    /\ [](/\ UsesLoop =>
               \A i, j \in Stored :
                   canMerge(_entryList[i], _entryList[j])
                      <=> (/\ _entryList[i].call = _entryList[j].call
                           /\ SameKind(_entryList[i], _entryList[j]))
          /\ UsesEventLoop =>
               \A i, j \in Stored :
                   Event_canMerge(_eventList[i], _eventList[j])
                      <=> (/\ _eventList[i].call = _eventList[j].call
                           /\ _eventList[i].type = _eventList[j].type))
    /\ [][\A fn \in Fn, merge \in BOOLEAN :
             /\ (UsesLoop /\ _count < entryListSize) =>
                   /\ addImmediateEvent(fn, merge)
                         => SuppressedIff(merge, \E i \in Stored :
                                /\ _entryList[i].call = fn
                                /\ IsImmediateOnce(_entryList[i]))
                   /\ \A delay \in KindsDelays :
                         addDelayedEvent(fn, delay, merge)
                         => SuppressedIff(merge, \E i \in Stored :
                                /\ _entryList[i].call = fn
                                /\ IsDelayed(_entryList[i]))
             /\ (UsesEventLoop /\ _count < eventListSize) =>
                   /\ EventLoop_addImmediateEvent(fn, merge)
                         => SuppressedIff(merge, PendingEvent(fn, "Immediate"))
                   /\ \A delay \in KindsDelays :
                         EventLoop_addDelayedEvent(fn, delay, merge)
                         => SuppressedIff(merge, PendingEvent(fn, "Delayed"))
                   /\ \A mask \in KindsMasks :
                         EventLoop_addInterruptEvent(fn, mask, merge)
                         => SuppressedIff(merge, PendingEvent(fn, "OnInterrupt"))]_vars

\* A registration into a StaticEventLoop with a free slot has just been
\* suppressed; all that is pending is one interrupt event with the first
\* mask, so the registration was an addInterruptEvent of that callback with
\* merge=true and the second mask
C26_Witness ==
    /\ UsesEventLoop
    /\ lastOp = "merged"
    /\ _count = 1
    /\ _eventList[0].type = "OnInterrupt"
    /\ _eventList[0].data = U32(1)

\* A registration with merge=true has just been stored by an event::Loop
\* next to a pending entry of the same callback and another kind: an
\* Immediate entry next to a Poll entry
C26_WitnessOtherKind ==
    /\ UsesLoop
    /\ lastOp = "stored"
    /\ _count = 2
    /\ _entryList[0].call = _entryList[1].call
    /\ IsPoll(_entryList[0])
    /\ IsImmediateOnce(_entryList[1])

(***************************************************************************)
(* C27: at every step of a pass, position <= local count <= count of the   *)
(* store, so the entryAt(position) of the scan always returns a stored     *)
(* entry and never the sentinel.                                           *)
(***************************************************************************)
C27_ScanWithinStore ==
    /\ (pc \in {"drain", "scan", "call"}) =>
          /\ 0 <= position
          /\ position <= count
          /\ count <= _count
    /\ (pc = "scan" /\ WhileCondition) =>
          /\ entryAt(_entryList, _count, position) = _entryList[position]
          /\ entryAt(_entryList, _count, position) # InvalidEntry
          /\ isSet(entryAt(_entryList, _count, position).flags, FlagValid)

\* The scan is about to read an entry after the pass has removed an entry
\* it invoked and a callback has added one behind the local count
C27_Witness ==
    /\ pc = "scan"
    /\ WhileCondition
    /\ count < _count
    /\ \E k \in 1 .. Len(calls) : calls[k].reg.id \notin StoredIds

(***************************************************************************)
(* C28: every pass clears all the flags it drained, whether or not any     *)
(* entry matched them, and an interrupt entry registered after the drain   *)
(* is never invoked for a flag signalled before that drain. Stated as: the *)
(* drain leaves the flag word empty and hands the pass exactly the bits    *)
(* signalled since the drain before it; while the pass runs and after it   *)
(* the flag word holds only bits signalled since its drain; an interrupt   *)
(* entry is invoked only for a bit of the snapshot of the pass; and an     *)
(* entry registered after the drain of a pass is not invoked in that pass. *)
(***************************************************************************)
C28_DrainedFlagsAreGone ==
    /\ [][(pc = "drain" /\ pc' = "scan")
           => (_interruptFlags' = 0 /\ interruptFlags' = owed)]_vars
    /\ [](pc # "drain" => _interruptFlags = owed)
    /\ [][(Fires /\ IsOnInterrupt(_entryList[position]))
           => isOneSet(BitAnd(_entryList[position].data.w0, interruptFlags))]_vars
    /\ [](InPass =>
            \A i \in Stored :
                ~AtPassStart(_entryList[i]) => _entryList[i].reg.id \notin CalledIds)

\* A pass has drained a flag and finished its scan without invoking
\* anything: the store holds an interrupt entry, none matched the flag, and
\* the flag word is empty
C28_Witness ==
    /\ pc = "scan"
    /\ ~WhileCondition
    /\ interruptFlags # 0
    /\ calls = <<>>
    /\ _interruptFlags = 0
    /\ \E i \in Stored : IsOnInterrupt(_entryList[i])

\* A pass has finished its scan; a callback of the pass registered an
\* interrupt entry for a flag of the snapshot, which is stored and was not
\* invoked, and the flag word is empty
C28_WitnessLateEntry ==
    /\ pc = "scan"
    /\ ~WhileCondition
    /\ _interruptFlags = 0
    /\ \E i \in Stored :
          /\ ~AtPassStart(_entryList[i])
          /\ IsOnInterrupt(_entryList[i])
          /\ isOneSet(BitAnd(_entryList[i].data.w0, interruptFlags))

\* Ticks (mod 2^32) since the Deadline was created or restarted
SinceStart == DurationMinus(tick, deadline.t)

\* Ticks (mod 2^32) since the end time of the Deadline
SinceEnd == DurationMinus(SinceStart, deadline.timeout)

(***************************************************************************)
(* C29: for a Deadline created or restarted at tick t with a timeout T,    *)
(* 1 <= T < 2^31, hasTimeout() is false while (now - t) mod 2^32 < T and   *)
(* true while T < (now - t) mod 2^32 < T + 2^31, across the wrap of the    *)
(* tick counter, and isInTime() is always its negation.                    *)
(***************************************************************************)
C29_TimeoutAfterDeadline ==
    (Less32(<<0, 0>>, deadline.timeout) /\ Less32(deadline.timeout, <<SignBit16, 0>>)) =>
        /\ Less32(SinceStart, deadline.timeout) => ~Deadline_hasTimeout(deadline, tick)
        /\ (/\ Less32(deadline.timeout, SinceStart)
            /\ Less32(SinceEnd, <<SignBit16, 0>>)) => Deadline_hasTimeout(deadline, tick)
        /\ Deadline_isInTime(deadline, tick) = ~Deadline_hasTimeout(deadline, tick)

\* C29 for timeouts below 2^28 and up to 2^28 ticks after the end time:
\* there the statement holds
C29_WithinBit28 ==
    (Less32(<<0, 0>>, deadline.timeout) /\ Less32(deadline.timeout, <<4096, 0>>)) =>
        /\ Less32(SinceStart, deadline.timeout) => ~Deadline_hasTimeout(deadline, tick)
        /\ (/\ Less32(deadline.timeout, SinceStart)
            /\ ~Less32(<<4096, 0>>, SinceEnd)) => Deadline_hasTimeout(deadline, tick)
        /\ Deadline_isInTime(deadline, tick) = ~Deadline_hasTimeout(deadline, tick)

\* The cursor lies within the line and the line within the line buffer
CursorWithinLine ==
    /\ 0 <= shell._lineCursorPosition
    /\ shell._lineCursorPosition <= shell._lineLength
    /\ shell._lineLength <= shell._lineBufferMaximumSize
    /\ ~shell.overrun

(***************************************************************************)
(* C30: after any sequence of received bytes, escape sequences and results *)
(* of the line expansion callback, 0 <= cursor position <= line length <=  *)
(* lineBufferSize, so the line buffer is never written past its size.      *)
(***************************************************************************)
C30_CursorWithinLine == UsesShell => CursorWithinLine

\* C30 while the cursor position and the line length are within the line
\* buffer before a step: only the step that takes the result of the line
\* expansion callback leaves them outside it
C30_OnlyExpansionLeavesLine ==
    [][(UsesShell /\ CursorWithinLine /\ ~CursorWithinLine')
        => (/\ shellPc = "lineExpansion"
            /\ shell._lineLength' > shell._lineBufferMaximumSize)]_vars
====
